---- MODULE Spec2Model ----
(***************************************************************************)
(* A model of yuin/sesame: the runtime registry (Mappers: Add, AddFactory, *)
(* Merge, Get, GetFuncByTypeName and the function index built by           *)
(* addMethods/funcs) and the per-field resolution of the mapping           *)
(* generator (genMapFuncBody).                                             *)
(***************************************************************************)
EXTENDS Integers, Sequences, FiniteSets, TLC

(***************************************************************************)
(* Bounds of the model.                                                    *)
(***************************************************************************)
\* registrations (Add / AddFactory) in one behaviour of Spec
GetRegs == 2
\* registrations in one behaviour of SpecMerge
MergeRegs == 2
\* registrations in one behaviour of SpecIndex
IndexRegs == 2
\* registrations in one behaviour of SpecScan
ScanRegs == 2
\* Merge calls in one behaviour
MaxMerges == 1
\* invocations of one factory that a behaviour may perform
MaxCalls == 2
\* registrations before the goroutines start in SpecConc
ConcRegs == 1
\* goroutines that call Get concurrently
NThreads == 2
\* Get calls one goroutine performs
MaxGets == 1
\* explicit field correspondences of one ObjectMapping
MaxFieldPairs == 2

(***************************************************************************)
(* Ids.  An id is a sequence of name tokens: the code looks at an id only  *)
(* through HasSuffix/HasPrefix of these tokens and through the trailing    *)
(* version pattern [vV]\d+.                                                *)
(***************************************************************************)
IdMapper == <<"Todo", "Mapper">>
IdConverter == <<"Time", "Converter">>
IdConverter2 == <<"Fixed", "Converter">>
IdHelper == <<"Todo", "Mapper", "Helper">>
IdConverterV2 == <<"Time", "Converter", "V2">>
IdFunc == <<"func:", "Mapper">>
IdDummy == <<"Dummy">>

Ids == {IdMapper, IdConverter, IdConverter2, IdHelper, IdConverterV2, IdFunc, IdDummy}

\* GetFuncByTypeName's id "" (no owner)
NoOwner == <<>>

\* strings.HasSuffix(name, tok)
HasSuffix(name, tok) == Len(name) > 0 /\ name[Len(name)] = tok

\* strings.HasPrefix(name, tok)
HasPrefix(name, tok) == Len(name) > 0 /\ name[1] = tok

\* a token that mapperNameVersionSuffixPattern ([vV]\d+) matches
IsVersionToken(tok) == tok \in {"V2", "v1"}

\* addMethods: the name with a trailing version suffix cut off
StripVersion(name) ==
  IF Len(name) > 0 /\ IsVersionToken(name[Len(name)])
  THEN SubSeq(name, 1, Len(name) - 1)
  ELSE name

\* every id a registry map may be asked for: the ids and their stripped names
AllIds == Ids \cup {StripVersion(i) : i \in Ids}

(***************************************************************************)
(* Types of registered objects (reflect.Type): the kind and the exported   *)
(* methods in reflect's order.  In lists the parameters after the receiver,*)
(* Conv tells whether funcNamePatter matches the method's name.            *)
(***************************************************************************)
Method(name, conv, in, out) == [Name |-> name, Conv |-> conv, In |-> in, Out |-> out]

TypeNames == {"TimeStringConverter", "FormatConverter", "TodoMapper", "TodoMapperHelper"}

TypeKind(t) == IF t = "TodoMapper" THEN "interface" ELSE "ptr"

Methods(t) ==
  CASE t = "TimeStringConverter" ->
         << Method("TimeToString", TRUE, <<"ctx", "Time">>, <<"string", "bool", "error">>) >>
    [] t = "FormatConverter" ->
         << Method("Format", FALSE, <<"ctx", "Time">>, <<"string", "error">>),
            Method("TimeToText", TRUE, <<"ctx", "Time">>, <<"string">>) >>
    [] t = "TodoMapper" ->
         << Method("ModelToEntity", TRUE, <<"ctx", "Model", "Entity">>, <<"error">>) >>
    [] t = "TodoMapperHelper" ->
         << Method("ModelToEntity", TRUE, <<"ctx", "Model", "Entity">>, <<"error">>) >>

HasMethod(t, name) == \E i \in 1..Len(Methods(t)) : Methods(t)[i].Name = name

\* the type pairs the function index is keyed by
toTypeIndex(s, d) == <<s, d>>

TypeArgs == {"Time", "string", "Model", "Entity"}
Pairs == {toTypeIndex("Time", "string"), toTypeIndex("Model", "Entity"),
          toTypeIndex("string", "Time")}

(***************************************************************************)
(* State.                                                                  *)
(***************************************************************************)
VARIABLES
  deps,      \* mappers.dependencies of each registry: id -> object
  facs,      \* mappers.factories of each registry: id -> factory
  findex,    \* mappers.findex of each registry: type pair -> list of mfunc
  calls,     \* history: invocations of each factory so far
  nregs,     \* history: Add/AddFactory calls so far
  nmerges,   \* history: Merge calls so far
  memo,      \* history: per registry and id, what the factory returned to Get
  pre,       \* history: both registries as they were before the last Merge
  gotten,    \* history: a Get or GetFunc has run on some registry
  last,      \* the last operation and what it returned
  crashed,   \* the process has panicked
  lock,      \* concurrentMappers.lock: the goroutine holding it, or 0
  tpc,       \* each goroutine's position inside concurrentMappers.Get
  targ,      \* each goroutine's id argument
  tloc,      \* each goroutine's local variables (obj, err)
  tret,      \* each goroutine's returned values, one per finished Get
  stack,     \* the calls of mappers.Get in progress, one inside the other, innermost first
  operand,   \* generator: the OperandType of the operand mapped from
  structs,   \* generator: the struct types of the operands A and B
  mapping,   \* generator: the ObjectMapping being generated
  genpc,     \* generator: the calls of genMapFuncBody in progress
  genout,    \* generator: statements printed so far
  generr,    \* generator: the error genMapFuncBody returned
  castSource, \* CanCast: the source type
  castDest,  \* CanCast: the destination type
  castResult, \* CanCast: what it returned, once it has
  config,    \* Generate: g.config.Mappings
  files,     \* Generate: the file system, path -> content
  dests,     \* Generate: the local dests, destination -> its mappings
  printers,  \* Generate: the printers whose Close is deferred, last first
  gpc,       \* Generate: its position
  gerr,      \* Generate: the error it returns
  mapper,    \* generated mapper: its helper and its mapper function fields
  sourceObj, \* generated mapping function: the object source points to
  destObj,   \* generated mapping function: the object dest points to
  rpc,       \* generated mapping function: its position
  rerr,      \* generated mapping function: the error it returned
  events,    \* history: statements run, functions and helper called
  first,     \* history: source and dest of the mapping run before this one
  given      \* history: the dest object as the function was given it

regVars == <<deps, facs, findex, calls, nregs, nmerges, memo, pre, gotten, last, crashed>>
thrVars == <<lock, tpc, targ, tloc, tret, stack>>
genVars == <<operand, structs, mapping, genpc, genout, generr>>
castVars == <<castSource, castDest, castResult>>
fileVars == <<config, files, dests, printers, gpc, gerr>>
runVars == <<mapper, sourceObj, destObj, rpc, rerr, events, first, given>>
restVars == <<castVars, fileVars, runVars>>
vars == <<regVars, thrVars, genVars, restVars>>
\* what a step of CanCast, and a step of Generate, leaves alone
notCast == <<regVars, thrVars, genVars, fileVars, runVars>>
notFile == <<regVars, thrVars, genVars, castVars, runVars>>

RegNames == {"base", "other"}

\* sync.Map.Load's ok = false
Absent == [absent |-> TRUE]
\* a nil interface value
NilObj == [nil |-> TRUE]
\* a nil error
NoErr == <<>>

\* an object of type t; tag tells the instances of a type apart
Object(t, tag) == [typ |-> t, tag |-> tag]

FactoryKinds == {"ok", "nil", "fail"}

\* the closure AddFactory stores
Factory(fid, kind, t) == [fid |-> fid, kind |-> kind, typ |-> t]

\* factory(d): the n-th invocation of factory f
FactoryCall(f, n) ==
  CASE f.kind = "ok" -> [obj |-> Object(f.typ, <<"factory", f.fid, n>>), err |-> NoErr]
    [] f.kind = "nil" -> [obj |-> NilObj, err |-> NoErr]
    [] f.kind = "fail" -> [obj |-> NilObj, err |-> <<[t |-> "factory", fid |-> f.fid, n |-> n]>>]

\* &Error{error: err, notFound: nf}
MError(nf, err) == <<[t |-> "Error", notFound |-> nf]>> \o err

\* fmt.Errorf("failed to create a mapper: %w", err)
Errorf(err) == <<[t |-> "fmt"]>> \o err

\* fmt.Errorf("object %s not found", id) and the like: an error wrapping nothing
ErrText(what) == <<[t |-> "text", what |-> what]>>

\* errors.As(err, &merr) && merr.NotFound(): the first layer with a NotFound method
RECURSIVE IsNotFound(_)
IsNotFound(err) ==
  IF err = NoErr THEN FALSE
  ELSE IF Head(err).t = "Error" THEN Head(err).notFound
  ELSE IsNotFound(Tail(err))

\* errors.Is-style unwrapping: the chain of err holds layer e
Wraps(err, e) == \E i \in 1..Len(err) : err[i] = e

(***************************************************************************)
(* mappers.Get on the maps D (dependencies) and F (factories) with the     *)
(* invocation counts C: what it returns and the maps it leaves.            *)
(***************************************************************************)
\* Get as it would be if the factory's product were not stored
GetNoStore(D, F, C, id) ==
  LET v == D[id] IN
  IF v = Absent \/ v = NilObj
  THEN IF F[id] # Absent
       THEN LET f == F[id]
                n == C[f.fid] + 1
                made == FactoryCall(f, n)
                C2 == [C EXCEPT ![f.fid] = n]
            IN IF made.err # NoErr
               THEN [obj |-> NilObj, err |-> Errorf(MError(FALSE, made.err)),
                     deps |-> D, calls |-> C2, invoked |-> TRUE, made |-> made]
               ELSE [obj |-> made.obj, err |-> NoErr, deps |-> D, calls |-> C2,
                     invoked |-> TRUE, made |-> made]
       ELSE [obj |-> NilObj, err |-> MError(TRUE, ErrText("object not found")),
             deps |-> D, calls |-> C, invoked |-> FALSE, made |-> Absent]
  ELSE [obj |-> v, err |-> NoErr, deps |-> D, calls |-> C, invoked |-> FALSE,
        made |-> Absent]

\* Get as it would be if a failed construction were reported as a miss
GetFailureAsMiss(D, F, C, id) ==
  LET v == D[id] IN
  IF v = Absent \/ v = NilObj
  THEN IF F[id] # Absent
       THEN LET f == F[id]
                n == C[f.fid] + 1
                made == FactoryCall(f, n)
                C2 == [C EXCEPT ![f.fid] = n]
            IN IF made.err # NoErr
               THEN [obj |-> NilObj, err |-> Errorf(MError(TRUE, made.err)),
                     deps |-> D, calls |-> C2, invoked |-> TRUE, made |-> made]
               ELSE [obj |-> made.obj, err |-> NoErr,
                     deps |-> [D EXCEPT ![id] = made.obj], calls |-> C2,
                     invoked |-> TRUE, made |-> made]
       ELSE [obj |-> NilObj, err |-> MError(TRUE, ErrText("object not found")),
             deps |-> D, calls |-> C, invoked |-> FALSE, made |-> Absent]
  ELSE [obj |-> v, err |-> NoErr, deps |-> D, calls |-> C, invoked |-> FALSE,
        made |-> Absent]

Get(D, F, C, id) ==
  LET v == D[id] IN
  IF v = Absent \/ v = NilObj
  THEN IF F[id] # Absent
       THEN LET f == F[id]
                n == C[f.fid] + 1
                made == FactoryCall(f, n)
                C2 == [C EXCEPT ![f.fid] = n]
            IN IF made.err # NoErr
               THEN [obj |-> NilObj, err |-> Errorf(MError(FALSE, made.err)),
                     deps |-> D, calls |-> C2, invoked |-> TRUE, made |-> made]
               ELSE [obj |-> made.obj, err |-> NoErr,
                     deps |-> [D EXCEPT ![id] = made.obj], calls |-> C2,
                     invoked |-> TRUE, made |-> made]
       ELSE [obj |-> NilObj, err |-> MError(TRUE, ErrText("object not found")),
             deps |-> D, calls |-> C, invoked |-> FALSE, made |-> Absent]
  ELSE [obj |-> v, err |-> NoErr, deps |-> D, calls |-> C, invoked |-> FALSE,
        made |-> Absent]

(***************************************************************************)
(* mappers.funcs: the index entries of the methods of type typ for the     *)
(* (version-stripped) id.  ft.In(i) past the parameters panics.            *)
(***************************************************************************)
\* what funcs yields when reflect panics (Type.In out of range)
PanicMark == <<[panic |-> TRUE]>>

Offset(typ) == IF TypeKind(typ) = "interface" THEN 0 ELSE 1

\* ft.NumIn(): the receiver counts for a method of a non-interface type
NumIn(typ, m) == Len(m.In) + Offset(typ)

\* ft.In(k + offset) is the k-th parameter after the receiver (k from 0)
InOk(m, k) == k + 1 <= Len(m.In)

Mfunc(s, d, name, id) ==
  [SourceType |-> s, DestType |-> d, Func |-> name, ObjectID |-> id, Global |-> FALSE]

\* whether the loop body of funcs skips method m (the `continue`)
ConverterSkips(typ, m) ==
  m.Conv /\ (NumIn(typ, m) # 2 + Offset(typ) \/ (Len(m.Out) # 2 /\ Len(m.Out) # 3))

MapperSkips(typ, m) ==
  m.Conv /\ (NumIn(typ, m) # 3 + Offset(typ) \/ Len(m.Out) # 1)

RECURSIVE ConverterFuncs(_, _, _)
ConverterFuncs(id, typ, ms) ==
  IF ms = <<>> THEN <<>>
  ELSE LET m == Head(ms)
           rest == ConverterFuncs(id, typ, Tail(ms))
       IN IF ConverterSkips(typ, m) THEN rest
          ELSE IF ~InOk(m, 1) \/ Len(m.Out) < 1 THEN PanicMark
          ELSE IF rest = PanicMark THEN rest
          ELSE <<Mfunc(m.In[2], m.Out[1], m.Name, id)>> \o rest

RECURSIVE MapperFuncs(_, _, _)
MapperFuncs(id, typ, ms) ==
  IF ms = <<>> THEN <<>>
  ELSE LET m == Head(ms)
           rest == MapperFuncs(id, typ, Tail(ms))
       IN IF MapperSkips(typ, m) THEN rest
          ELSE IF ~InOk(m, 2) THEN PanicMark
          ELSE IF rest = PanicMark THEN rest
          ELSE <<Mfunc(m.In[2], m.In[3], m.Name, id)>> \o rest

funcs(id, typ) ==
  IF HasSuffix(id, "Converter") THEN ConverterFuncs(id, typ, Methods(typ))
  ELSE IF HasSuffix(id, "Mapper") THEN MapperFuncs(id, typ, Methods(typ))
  ELSE <<>>

Panics(fs) == fs = PanicMark

(***************************************************************************)
(* mappers.addMethods: the function index X after the methods of typ are   *)
(* appended under the stripped name.                                       *)
(***************************************************************************)
RECURSIVE AppendAll(_, _, _)
AppendAll(X, fs, global) ==
  IF fs = <<>> THEN X
  ELSE LET f == [Head(fs) EXCEPT !.Global = global]
           index == toTypeIndex(f.SourceType, f.DestType)
       IN AppendAll([X EXCEPT ![index] = Append(X[index], f)], Tail(fs), global)

\* the funcs addMethods iterates over: none for a Helper or a func: name
addMethodsFuncs(id, typ) ==
  LET name == StripVersion(id) IN
  IF HasSuffix(name, "Helper") THEN <<>>
  ELSE IF HasPrefix(name, "func:") THEN <<>>
  ELSE funcs(name, typ)

addMethods(X, id, typ, global) ==
  LET fs == addMethodsFuncs(id, typ) IN
  IF Panics(fs) THEN X ELSE AppendAll(X, fs, global)

(***************************************************************************)
(* mappers.GetFuncByTypeName.                                              *)
(***************************************************************************)
\* the condition of the search loop for entry f and the id asked for
\* the condition as it would be without the Global test
SelectsAnyEntry(f, id) == id = NoOwner \/ f.ObjectID = id

\* the condition as it would be if an owner's entry had to be global too
SelectsGlobalOnly(f, id) == f.Global /\ (id = NoOwner \/ f.ObjectID = id)

Selects(f, id) == (f.Global /\ id = NoOwner) \/ f.ObjectID = id

\* the loop `for i := len(lst) - 1; i >= 0; i--`: the entry found, or 0
RECURSIVE SearchFromEnd(_, _, _)
SearchFromEnd(lst, i, id) ==
  IF i = 0 THEN 0
  ELSE IF Selects(lst[i], id) THEN i
  ELSE SearchFromEnd(lst, i - 1, id)

\* the search as it would be from the front of the list
RECURSIVE SearchFromStart(_, _, _)
SearchFromStart(lst, i, id) ==
  IF i > Len(lst) THEN 0
  ELSE IF Selects(lst[i], id) THEN i
  ELSE SearchFromStart(lst, i + 1, id)

SearchIndexFirst(lst, id) == SearchFromStart(lst, 1, id)

SearchIndex(lst, id) == SearchFromEnd(lst, Len(lst), id)

NotFoundFunc == MError(TRUE, ErrText("functions not found"))

\* what GetFuncByTypeName returns: fn is the method value
\* reflect.ValueOf(obj).MethodByName(name).Interface(), which panics for a nil
\* obj and for an obj without that method
GetFuncByTypeName(D, F, C, X, id, index) ==
  LET lst == X[index]
      i == SearchIndex(lst, id)
      none == [fn |-> Absent, err |-> NotFoundFunc, deps |-> D, calls |-> C,
               sel |-> 0, panic |-> FALSE, invoked |-> FALSE]
  IN IF lst = <<>> THEN none
     ELSE IF i = 0 THEN none
     ELSE LET g == Get(D, F, C, lst[i].ObjectID) IN
          IF g.err # NoErr
          THEN [fn |-> Absent, err |-> g.err, deps |-> g.deps, calls |-> g.calls,
                sel |-> i, panic |-> FALSE, invoked |-> g.invoked]
          ELSE IF g.obj = NilObj \/ ~HasMethod(g.obj.typ, lst[i].Func)
          THEN [fn |-> Absent, err |-> NoErr, deps |-> g.deps, calls |-> g.calls,
                sel |-> i, panic |-> TRUE, invoked |-> g.invoked]
          ELSE [fn |-> [obj |-> g.obj, method |-> lst[i].Func], err |-> NoErr,
                deps |-> g.deps, calls |-> g.calls, sel |-> i, panic |-> FALSE,
                invoked |-> g.invoked]

(***************************************************************************)
(* mappers.Merge: the maps of this registry after those of the other are   *)
(* stored over them, and the index lists after the other's are appended.   *)
(***************************************************************************)
MergeMap(M, O) == [id \in DOMAIN M |-> IF O[id] # Absent THEN O[id] ELSE M[id]]

MergeIndex(X, Y) == [index \in DOMAIN X |-> X[index] \o Y[index]]

(***************************************************************************)
(* Initial state: two registries fresh from NewMappers.                    *)
(***************************************************************************)
EmptyMap == [id \in AllIds |-> Absent]
EmptyIndex == [index \in Pairs |-> <<>>]
\* the factories a behaviour can register: one per registration
FactoryIds == 1..(GetRegs + MergeRegs + IndexRegs + ScanRegs + ConcRegs)
Threads == 1..NThreads

NoLast == [op |-> "none", reg |-> "base", id |-> NoOwner, index |-> <<>>,
           obj |-> NilObj, err |-> NoErr, fn |-> Absent, sel |-> 0, invoked |-> FALSE]

NoPre == [merged |-> FALSE]

InitThreads ==
  /\ lock = 0
  /\ tpc = [t \in Threads |-> "idle"]
  /\ targ = [t \in Threads |-> NoOwner]
  /\ tloc = [t \in Threads |-> [obj |-> NilObj, err |-> NoErr]]
  /\ tret = [t \in Threads |-> <<>>]
  /\ stack = <<>>

InitGenIdle ==
  /\ operand = "A"
  /\ structs = [A |-> "Todo", B |-> "TodoEntity"]
  /\ mapping = <<>>
  /\ genpc = [state |-> "idle", stack |-> <<>>]
  /\ genout = <<>>
  /\ generr = NoErr

InitRegistry ==
  /\ deps = [r \in RegNames |-> EmptyMap]
  /\ facs = [r \in RegNames |-> EmptyMap]
  /\ findex = [r \in RegNames |-> EmptyIndex]
  /\ calls = [f \in FactoryIds |-> 0]
  /\ nregs = 0
  /\ nmerges = 0
  /\ memo = [r \in RegNames |-> EmptyMap]
  /\ pre = NoPre
  /\ gotten = FALSE
  /\ last = NoLast
  /\ crashed = FALSE

\* nothing has been asked of CanCast
InitCastIdle ==
  /\ castSource = ""
  /\ castDest = ""
  /\ castResult = [done |-> FALSE, ok |-> FALSE]

\* Generate is not running
InitGenerateIdle ==
  /\ config = <<>>
  /\ files = <<>>
  /\ dests = <<>>
  /\ printers = <<>>
  /\ gpc = [at |-> "idle", dest |-> "", i |-> 0]
  /\ gerr = NoErr

\* no generated mapping function is running
InitRunIdle ==
  /\ mapper = [helper |-> "none", funcs |-> {}, failOn |-> {}]
  /\ sourceObj = <<>>
  /\ destObj = <<>>
  /\ rpc = [state |-> "idle", i |-> 0]
  /\ rerr = NoErr
  /\ events = <<>>
  /\ first = <<>>
  /\ given = <<>>

InitRestIdle == InitCastIdle /\ InitGenerateIdle /\ InitRunIdle

Init == InitRegistry /\ InitThreads /\ InitGenIdle /\ InitRestIdle

(***************************************************************************)
(* The registry's operations, called from one goroutine.                   *)
(***************************************************************************)
\* mappers.Add(id, obj, opts...): obj is a new object of type typ, ng is
\* WithNoGlobals
Add(r, id, typ, ng) ==
  /\ ~crashed
  /\ deps' = [deps EXCEPT ![r][id] = Object(typ, <<"add", nregs + 1>>)]
  /\ findex' = [findex EXCEPT ![r] = addMethods(@, id, typ, ~ng)]
  /\ crashed' = Panics(addMethodsFuncs(id, typ))
  /\ nregs' = nregs + 1
  /\ memo' = [memo EXCEPT ![r] = EmptyMap]
  /\ last' = [NoLast EXCEPT !.op = "add", !.reg = r, !.id = id]
  /\ UNCHANGED <<facs, calls, nmerges, pre, gotten>>
  /\ UNCHANGED <<thrVars, genVars, restVars>>

\* mappers.AddFactory(id, typ, factory, opts...): factory behaves as kind says
AddFactory(r, id, typ, kind, ng) ==
  /\ ~crashed
  /\ facs' = [facs EXCEPT ![r][id] = Factory(nregs + 1, kind, typ)]
  /\ findex' = [findex EXCEPT ![r] = addMethods(@, id, typ, ~ng)]
  /\ crashed' = Panics(addMethodsFuncs(id, typ))
  /\ nregs' = nregs + 1
  /\ memo' = [memo EXCEPT ![r] = EmptyMap]
  /\ last' = [NoLast EXCEPT !.op = "addFactory", !.reg = r, !.id = id]
  /\ UNCHANGED <<deps, calls, nmerges, pre, gotten>>
  /\ UNCHANGED <<thrVars, genVars, restVars>>

\* base.Merge(other)
Merge ==
  /\ ~crashed
  /\ nmerges < MaxMerges
  /\ deps' = [deps EXCEPT !["base"] = MergeMap(@, deps["other"])]
  /\ facs' = [facs EXCEPT !["base"] = MergeMap(@, facs["other"])]
  /\ findex' = [findex EXCEPT !["base"] = MergeIndex(@, findex["other"])]
  /\ nmerges' = nmerges + 1
  /\ memo' = [memo EXCEPT !["base"] = EmptyMap]
  /\ pre' = [merged |-> TRUE, deps |-> deps, facs |-> facs, findex |-> findex,
             clean |-> ~gotten]
  /\ last' = [NoLast EXCEPT !.op = "merge"]
  /\ UNCHANGED <<calls, nregs, gotten, crashed>>
  /\ UNCHANGED <<thrVars, genVars, restVars>>

\* the history of what the factory of (r, id) returned to a Get without error
Memoize(r, id, g) ==
  IF g.invoked /\ g.err = NoErr THEN [memo EXCEPT ![r][id] = g.made.obj] ELSE memo

\* r.Get(id)
GetStep(r, id) ==
  LET g == Get(deps[r], facs[r], calls, id) IN
  /\ ~crashed
  /\ \A f \in FactoryIds : g.calls[f] <= MaxCalls
  /\ deps' = [deps EXCEPT ![r] = g.deps]
  /\ calls' = g.calls
  /\ memo' = Memoize(r, id, g)
  /\ gotten' = TRUE
  /\ last' = [NoLast EXCEPT !.op = "get", !.reg = r, !.id = id, !.obj = g.obj,
                            !.err = g.err, !.invoked = g.invoked]
  /\ UNCHANGED <<facs, findex, nregs, nmerges, pre, crashed>>
  /\ UNCHANGED <<thrVars, genVars, restVars>>

\* r.GetFuncByTypeName(id, sourceName, destName)
GetFuncStep(r, id, index) ==
  LET g == GetFuncByTypeName(deps[r], facs[r], calls, findex[r], id, index)
      owner == IF g.sel = 0 THEN NoOwner ELSE findex[r][index][g.sel].ObjectID
  IN
  /\ ~crashed
  /\ \A f \in FactoryIds : g.calls[f] <= MaxCalls
  /\ deps' = [deps EXCEPT ![r] = g.deps]
  /\ calls' = g.calls
  /\ memo' = IF g.invoked /\ g.err = NoErr
             THEN [memo EXCEPT ![r][owner] = g.deps[owner]] ELSE memo
  /\ gotten' = TRUE
  /\ crashed' = g.panic
  /\ last' = [NoLast EXCEPT !.op = "getFunc", !.reg = r, !.id = id, !.index = index,
                            !.err = g.err, !.fn = g.fn, !.sel = g.sel,
                            !.invoked = g.invoked]
  /\ UNCHANGED <<facs, findex, nregs, nmerges, pre>>
  /\ UNCHANGED <<thrVars, genVars, restVars>>

(***************************************************************************)
(* Specifications of the registry.  Each draws the arguments of the        *)
(* operations from the sets its properties are about.                      *)
(***************************************************************************)
\* the type an id is registered with by convention
DeclaredType(id) ==
  CASE id = IdMapper -> "TodoMapper"
    [] id = IdFunc -> "TodoMapper"
    [] id = IdHelper -> "TodoMapperHelper"
    [] OTHER -> "TimeStringConverter"

\* instances and factories that succeed, merged and looked up by id
MergeIds == {IdConverter, IdMapper}

NextMerge ==
  \/ /\ nregs < MergeRegs
     /\ \E r \in RegNames, id \in MergeIds : Add(r, id, DeclaredType(id), FALSE)
  \/ /\ nregs < MergeRegs
     /\ \E r \in RegNames, id \in MergeIds :
           AddFactory(r, id, DeclaredType(id), "ok", FALSE)
  \/ Merge
  \/ \E r \in RegNames, id \in MergeIds : GetStep(r, id)

SpecMerge == Init /\ [][NextMerge]_vars

\* the id is present in registry r of the snapshot taken before the merge
PresentBefore(r, id) == pre.deps[r][id] # Absent \/ pre.facs[r][id] # Absent

\* what r.Get(id) would have returned before the merge
GetBefore(r, id) == Get(pre.deps[r], pre.facs[r], calls, id)

\* C2: after base.Merge(other), with no Get before the merge, base.Get(id)
\* returns other's object for every id present in both registries (instance
\* or factory on either side) and base's object for an id present only in
\* base.
C2_MergePrefersOther ==
  (last.op = "merge" /\ pre.clean) =>
    \A id \in MergeIds :
      LET now == Get(deps["base"], facs["base"], calls, id) IN
      /\ (PresentBefore("base", id) /\ PresentBefore("other", id)) =>
            (now.obj = GetBefore("other", id).obj /\ now.err = NoErr)
      /\ (PresentBefore("base", id) /\ ~PresentBefore("other", id)) =>
            (now.obj = GetBefore("base", id).obj /\ now.err = NoErr)

(***************************************************************************)
(* Spec: one registry, instances and factories of every kind, Get and      *)
(* GetFuncByTypeName.                                                      *)
(***************************************************************************)
GetIds == {IdConverter, IdMapper}

NextGet ==
  \/ /\ nregs < GetRegs
     /\ \E id \in GetIds : Add("base", id, DeclaredType(id), FALSE)
  \/ /\ nregs < GetRegs
     /\ \E id \in GetIds, kind \in FactoryKinds :
           AddFactory("base", id, DeclaredType(id), kind, FALSE)
  \/ \E id \in GetIds \cup {IdDummy} : GetStep("base", id)
  \/ \E id \in {NoOwner, IdConverter}, index \in Pairs : GetFuncStep("base", id, index)

Spec == Init /\ [][NextGet]_vars

\* a later Get(r, id): no factory runs and the value is v
LaterGetReturns(r, id, v) ==
  LET g == Get(deps[r], facs[r], calls, id) IN ~g.invoked /\ g.obj = v

\* C3 as stated: once an invocation of the factory of id has returned without
\* error, whatever the value, the factory is never invoked again and every
\* later Get(id) returns that value.
C3_AnyValueMemoized ==
  \A id \in AllIds :
    (~crashed /\ memo["base"][id] # Absent) =>
       LaterGetReturns("base", id, memo["base"][id])

\* C3 amended: once an invocation of the factory of id has returned a non-nil
\* value without error, the factory is never invoked again by Get(id) and
\* every later Get(id) returns that value.
C3_NonNilValueMemoized ==
  \A id \in AllIds :
    (memo["base"][id] # Absent /\ memo["base"][id] # NilObj) =>
       LaterGetReturns("base", id, memo["base"][id])

\* a Get of an id whose factory had returned an object came back with it
C3_Witness ==
  /\ last.op = "get"
  /\ ~last.invoked
  /\ memo["base"][last.id] # Absent
  /\ memo["base"][last.id] # NilObj
  /\ last.obj = memo["base"][last.id]
  /\ calls[facs["base"][last.id].fid] = 1

\* C7: a miss carries NotFound = true (Get of an id with neither instance nor
\* factory, GetFunc of a pair with no selectable entry); a Get whose factory
\* fails returns an error that wraps the factory's error with NotFound = false.
C7_NotFoundFlag ==
  /\ (last.op = "get" /\ deps[last.reg][last.id] = Absent
        /\ facs[last.reg][last.id] = Absent)
       => (last.err # NoErr /\ IsNotFound(last.err))
  /\ (last.op = "getFunc" /\ SearchIndex(findex[last.reg][last.index], last.id) = 0)
       => (last.err # NoErr /\ IsNotFound(last.err))
  /\ (last.op = "get" /\ last.invoked /\ facs[last.reg][last.id].kind = "fail")
       => /\ last.err # NoErr
          /\ ~IsNotFound(last.err)
          /\ \E n \in 1..calls[facs[last.reg][last.id].fid] :
                Wraps(last.err, [t |-> "factory", fid |-> facs[last.reg][last.id].fid,
                                 n |-> n])

\* a Get ran a failing factory and returned its error
C7_Witness ==
  /\ last.op = "get"
  /\ last.invoked
  /\ last.err # NoErr
  /\ ~IsNotFound(last.err)

(***************************************************************************)
(* concurrentMappers.Get, one step per access to the shared maps, called   *)
(* by several goroutines on registry base.                                 *)
(***************************************************************************)
\* d.lock.Lock() can return for goroutine t as if the mutex were not there
CanLockNoMutex(t) == TRUE

\* d.lock.Lock() can return for goroutine t
CanLock(t) == lock = 0

\* the branch after the factory returned with a missing error check
AfterFactorySwallow(made) ==
  IF made.err # NoErr
  THEN [loc |-> [obj |-> NilObj, err |-> NoErr], pc |-> "final"]
  ELSE [loc |-> [obj |-> made.obj, err |-> NoErr], pc |-> "store"]

\* the branch after the factory returned: the error wrapped and returned, or
\* the object on its way to dependencies.Store
AfterFactory(made) ==
  IF made.err # NoErr
  THEN [loc |-> [obj |-> NilObj, err |-> Errorf(MError(FALSE, made.err))], pc |-> "unlock"]
  ELSE [loc |-> [obj |-> made.obj, err |-> NoErr], pc |-> "store"]

\* d.lock.Lock() at the start of Get(id)
TLock(t, id) ==
  /\ tpc[t] = "idle"
  /\ Len(tret[t]) < MaxGets
  /\ CanLock(t)
  /\ lock' = t
  /\ tpc' = [tpc EXCEPT ![t] = "load"]
  /\ targ' = [targ EXCEPT ![t] = id]
  /\ UNCHANGED <<stack, tloc, tret, regVars, genVars, restVars>>

\* d.dependencies.Load(id) and, on a miss, d.factories.Load(id)
TLoad(t) ==
  /\ tpc[t] = "load"
  /\ LET v == deps["base"][targ[t]] IN
     IF v = Absent \/ v = NilObj
     THEN IF facs["base"][targ[t]] # Absent
          THEN /\ tpc' = [tpc EXCEPT ![t] = "invoke"]
               /\ UNCHANGED tloc
          ELSE /\ tpc' = [tpc EXCEPT ![t] = "unlock"]
               /\ tloc' = [tloc EXCEPT ![t] =
                    [obj |-> NilObj, err |-> MError(TRUE, ErrText("object not found"))]]
     ELSE /\ tpc' = [tpc EXCEPT ![t] = "final"]
          /\ UNCHANGED tloc
  /\ UNCHANGED <<stack, lock, targ, tret, regVars, genVars, restVars>>

\* obj, err := factory(d)
TInvoke(t) ==
  /\ tpc[t] = "invoke"
  /\ LET f == facs["base"][targ[t]]
         n == calls[f.fid] + 1
         after == AfterFactory(FactoryCall(f, n))
     IN /\ calls' = [calls EXCEPT ![f.fid] = n]
        /\ tloc' = [tloc EXCEPT ![t] = after.loc]
        /\ tpc' = [tpc EXCEPT ![t] = after.pc]
  /\ UNCHANGED <<stack, lock, targ, tret, genVars, restVars>>
  /\ UNCHANGED <<deps, facs, findex, nregs, nmerges, memo, pre, gotten, last, crashed>>

\* d.dependencies.Store(id, obj)
TStore(t) ==
  /\ tpc[t] = "store"
  /\ deps' = [deps EXCEPT !["base"][targ[t]] = tloc[t].obj]
  /\ tpc' = [tpc EXCEPT ![t] = "final"]
  /\ UNCHANGED <<stack, lock, targ, tloc, tret, genVars, restVars>>
  /\ UNCHANGED <<facs, findex, calls, nregs, nmerges, memo, pre, gotten, last, crashed>>

\* obj, _ := d.dependencies.Load(id); return obj, nil
TFinal(t) ==
  /\ tpc[t] = "final"
  /\ tloc' = [tloc EXCEPT ![t] =
       [obj |-> IF deps["base"][targ[t]] = Absent THEN NilObj ELSE deps["base"][targ[t]],
        err |-> NoErr]]
  /\ tpc' = [tpc EXCEPT ![t] = "unlock"]
  /\ UNCHANGED <<stack, lock, targ, tret, regVars, genVars, restVars>>

\* the deferred d.lock.Unlock() and the return to the caller
TUnlock(t) ==
  /\ tpc[t] = "unlock"
  /\ lock' = 0
  /\ tret' = [tret EXCEPT ![t] =
       Append(@, [id |-> targ[t], obj |-> tloc[t].obj, err |-> tloc[t].err])]
  /\ tpc' = [tpc EXCEPT ![t] = "idle"]
  /\ UNCHANGED <<stack, targ, tloc, regVars, genVars, restVars>>

ConcIds == {IdConverter, IdMapper}

\* no goroutine has called Get yet: the initialisation phase
NotStarted == \A t \in Threads : tpc[t] = "idle" /\ tret[t] = <<>>

NextConc ==
  \/ /\ NotStarted
     /\ nregs < ConcRegs
     /\ \E id \in ConcIds, kind \in FactoryKinds :
           AddFactory("base", id, DeclaredType(id), kind, FALSE)
  \/ \E t \in Threads, id \in ConcIds : TLock(t, id)
  \/ \E t \in Threads : TLoad(t)
  \/ \E t \in Threads : TInvoke(t)
  \/ \E t \in Threads : TStore(t)
  \/ \E t \in Threads : TFinal(t)
  \/ \E t \in Threads : TUnlock(t)

SpecConc == Init /\ [][NextConc]_vars

\* the Get(id) calls that have returned, as (goroutine, call number)
Returned(id) ==
  {tc \in Threads \X (1..MaxGets) : tc[2] <= Len(tret[tc[1]]) /\ tret[tc[1]][tc[2]].id = id}

Ret(tc) == tret[tc[1]][tc[2]]

\* C1: for an id registered only through AddFactory whose factory returns an
\* object, under every interleaving of Get(id) calls from several goroutines
\* the factory is invoked exactly once and every caller receives the same
\* instance.
C1_FactoryOnceSameInstance ==
  \A id \in ConcIds :
    (facs["base"][id] # Absent /\ facs["base"][id].kind = "ok") =>
      LET f == facs["base"][id] IN
      /\ calls[f.fid] <= 1
      /\ \A tc \in Returned(id) :
           /\ calls[f.fid] = 1
           /\ Ret(tc).err = NoErr
           /\ Ret(tc).obj = Object(f.typ, <<"factory", f.fid, 1>>)

\* every goroutine has returned from a Get of the same factory-made id
C1_Witness ==
  \E id \in ConcIds :
    /\ facs["base"][id] # Absent
    /\ facs["base"][id].kind = "ok"
    /\ \A t \in Threads : Len(tret[t]) >= 1 /\ tret[t][1].id = id /\ tret[t][1].obj # NilObj

\* C4 as stated: concurrent first-time Get(id) calls on an entry whose factory
\* fails invoke the factory exactly once and all callers receive the same
\* failure.
C4_FailureOnce ==
  \A id \in ConcIds :
    (facs["base"][id] # Absent /\ facs["base"][id].kind = "fail") =>
      /\ calls[facs["base"][id].fid] <= 1
      /\ \A tc, td \in Returned(id) : Ret(tc).err = Ret(td).err

\* the goroutines between the factory's failure and their return
Failing(id) == {t \in Threads : tpc[t] = "unlock" /\ targ[t] = id}

\* C4 amended: every Get(id) call on an entry whose factory fails invokes the
\* factory itself, one call at a time, so the invocations are as many as the
\* calls, and each caller receives the failure of its own invocation, wrapped
\* in an error whose NotFound flag is false.
C4_FailurePerCall ==
  \A id \in ConcIds :
    (facs["base"][id] # Absent /\ facs["base"][id].kind = "fail") =>
      LET f == facs["base"][id] IN
      /\ calls[f.fid] = Cardinality(Returned(id)) + Cardinality(Failing(id))
      /\ \A tc \in Returned(id) :
           /\ Ret(tc).obj = NilObj
           /\ ~IsNotFound(Ret(tc).err)
           /\ \E n \in 1..calls[f.fid] :
                Ret(tc).err = Errorf(MError(FALSE, <<[t |-> "factory", fid |-> f.fid, n |-> n]>>))
      /\ \A tc, td \in Returned(id) : (tc # td) => Ret(tc).err # Ret(td).err

\* every goroutine has returned from a Get of the same id whose factory fails
C4_Witness ==
  \E id \in ConcIds :
    /\ facs["base"][id] # Absent
    /\ facs["base"][id].kind = "fail"
    /\ \A t \in Threads : Len(tret[t]) >= 1 /\ tret[t][1].id = id /\ tret[t][1].err # NoErr

(***************************************************************************)
(* SpecIndex: two registries, converters for one type pair registered as   *)
(* globals and with WithNoGlobals, merged and looked up by type pair.      *)
(***************************************************************************)
IndexOwners == {IdConverter, IdConverter2}
TimeToString == toTypeIndex("Time", "string")
StringToTime == toTypeIndex("string", "Time")

\* registrations and the merge come first, lookups after them (README: merging
\* must be done before any Get call); one converter is added as an instance,
\* the other through a factory, as testdata's AddTimeToStringConverter does
NextIndex ==
  \/ /\ nregs < IndexRegs
     /\ ~gotten
     /\ \E r \in RegNames, ng \in BOOLEAN :
           Add(r, IdConverter, "TimeStringConverter", ng)
  \/ /\ nregs < IndexRegs
     /\ ~gotten
     /\ \E r \in RegNames, ng \in BOOLEAN :
           AddFactory(r, IdConverter2, "TimeStringConverter", "ok", ng)
  \/ /\ ~gotten
     /\ Merge
  \/ \E id \in IndexOwners \cup {NoOwner} : GetFuncStep("base", id, TimeToString)

SpecIndex == Init /\ [][NextIndex]_vars

Max(S) == CHOOSE x \in S : \A y \in S : y <= x

\* the positions of the global entries of a list, and of the entries of an owner
GlobalAt(lst) == {i \in 1..Len(lst) : lst[i].Global}
OwnedAt(lst, id) == {i \in 1..Len(lst) : lst[i].ObjectID = id}

\* the list the last GetFunc searched (GetFunc leaves the index as it is)
LastList == findex[last.reg][last.index]

\* the last GetFunc returned the operation of entry i of its list: the method
\* the entry names, of the object registered under the entry's owner
ReturnedEntry(i) ==
  /\ last.sel = i
  /\ last.err = NoErr
  /\ last.fn = [obj |-> deps[last.reg][LastList[i].ObjectID], method |-> LastList[i].Func]
  /\ last.fn.obj # NilObj
  /\ last.fn.obj # Absent

LastNotFound == last.sel = 0 /\ last.fn = Absent /\ IsNotFound(last.err)

\* C5: GetFunc without an owner returns the operation of the most recently
\* registered global entry of the pair: the latest Add/AddFactory wins within a
\* registry, and after base.Merge(other) every global entry of other comes
\* after (shadows) every entry base had for the pair.
C5_LatestGlobalWins ==
  /\ (last.op = "getFunc" /\ last.id = NoOwner /\ GlobalAt(LastList) # {})
        => ReturnedEntry(Max(GlobalAt(LastList)))
  /\ (last.op = "merge") =>
        \A index \in Pairs :
          LET was == pre.findex["base"][index]
              theirs == pre.findex["other"][index]
              now == findex["base"][index]
          IN (GlobalAt(theirs) # {}) =>
               /\ SearchIndex(now, NoOwner) > Len(was)
               /\ now[SearchIndex(now, NoOwner)] = theirs[Max(GlobalAt(theirs))]

\* after a merge in which both registries had a global entry for the pair, the
\* lookup without an owner returned other's entry
C5_Witness ==
  /\ last.op = "getFunc"
  /\ last.id = NoOwner
  /\ pre.merged
  /\ GlobalAt(pre.findex["base"][last.index]) # {}
  /\ GlobalAt(pre.findex["other"][last.index]) # {}
  /\ findex["base"][last.index] =
        pre.findex["base"][last.index] \o pre.findex["other"][last.index]
  /\ last.sel > Len(pre.findex["base"][last.index])
  /\ last.err = NoErr

C8_NoGlobalsNeverGlobal ==
  (last.op = "getFunc" /\ last.id = NoOwner) =>
     /\ (last.sel > 0) => LastList[last.sel].Global
     /\ (LastList # <<>> /\ ~LastList[Len(LastList)].Global) =>
           IF GlobalAt(LastList) = {} THEN LastNotFound
           ELSE ReturnedEntry(Max(GlobalAt(LastList)))

\* the lookup without an owner passed over a later WithNoGlobals entry and
\* returned an earlier global one
C8_Witness ==
  /\ last.op = "getFunc"
  /\ last.id = NoOwner
  /\ last.sel > 0
  /\ last.sel < Len(LastList)
  /\ ~LastList[Len(LastList)].Global
  /\ last.err = NoErr

(***************************************************************************)
(* SpecScan: registrations of objects of every type under ids of every     *)
(* form; what addMethods leaves in the function index.                     *)
(***************************************************************************)
\* the (id, type) pairs registered: converters with conforming and with
\* non-conforming methods, a mapper, a helper, a func: id, a versioned id
ScanInputs ==
  { <<IdConverter, "TimeStringConverter">>, <<IdConverter, "FormatConverter">>,
    <<IdMapper, "TodoMapper">>, <<IdHelper, "TodoMapperHelper">>,
    <<IdFunc, "TodoMapper">>, <<IdConverterV2, "TimeStringConverter">> }

NextScan ==
  \/ /\ nregs < ScanRegs
     /\ \E in \in ScanInputs, ng \in BOOLEAN : Add("base", in[1], in[2], ng)
  \/ /\ nregs < ScanRegs
     /\ \E in \in ScanInputs, ng \in BOOLEAN :
           AddFactory("base", in[1], in[2], "ok", ng)

SpecScan == Init /\ [][NextScan]_vars

\* the methods of the registered types whose name funcNamePatter matches and
\* whose arity has the shape funcs asks of an owner with that suffix
Conforming(owner) ==
  { m \in UNION { {Methods(t)[k] : k \in 1..Len(Methods(t))} : t \in TypeNames } :
      /\ m.Conv
      /\ \/ HasSuffix(owner, "Converter") /\ Len(m.In) = 2 /\ Len(m.Out) \in {2, 3}
         \/ HasSuffix(owner, "Mapper") /\ Len(m.In) = 3 /\ Len(m.Out) = 1 }

\* C9: every entry of the function index is owned by an id ending in Mapper
\* or Converter and is a method whose name matches the XxxToYyy convention
\* and whose arity has the mapper or converter shape; a method whose name
\* does not match, and any method of an object added under a Helper id, has
\* no entry.
C9_IndexOnlyConvention ==
  \A r \in RegNames, index \in Pairs :
    \A i \in 1..Len(findex[r][index]) :
      LET f == findex[r][index][i] IN
      /\ HasSuffix(f.ObjectID, "Mapper") \/ HasSuffix(f.ObjectID, "Converter")
      /\ \E m \in Conforming(f.ObjectID) :
            /\ m.Name = f.Func
            /\ toTypeIndex(f.SourceType, f.DestType) = index

(***************************************************************************)
(* The generator.  Field and method names are sequences of segments: a     *)
(* path "User.ID" is <<"User", "ID">>, the method name "Set" + "Done" is   *)
(* <<"Set", "Done">>.                                                      *)
(***************************************************************************)
\* strings.ToLower of a segment
ToLower(seg) ==
  CASE seg \in {"ID", "Id"} -> "id"
    [] seg = "Title" -> "title"
    [] seg = "Done" -> "done"
    [] seg = "Finished" -> "finished"
    [] seg = "UserID" -> "userid"
    [] seg \in {"secret", "Secret"} -> "secret"
    [] seg = "User" -> "user"
    [] seg = "Tags" -> "tags"
    [] seg = "Missing" -> "missing"
    [] seg = "Set" -> "set"
    [] OTHER -> seg

\* f.Name() == name || ignoreCase && ToLower(f.Name()) == ToLower(name)
SameName(a, b, ignoreCase) ==
  \/ a = b
  \/ /\ ignoreCase
     /\ Len(a) = Len(b)
     /\ \A i \in 1..Len(a) : ToLower(a[i]) = ToLower(b[i])

\* types.Var.Exported / types.Func.Exported: the name starts with a capital
Exported(seg) == seg # "secret"

Wildcard == <<"*">>

(***************************************************************************)
(* Types.  A type is the text of its Go type expression; a basic type's    *)
(* name is looked at through its prefix ("int", "uint") and the digits     *)
(* after it.                                                               *)
(***************************************************************************)
SignedInts == {"int", "int8", "int16", "int32", "int64"}
UnsignedInts == {"uint", "uint8", "uint16", "uint32", "uint64", "uintptr"}
BasicTypes == SignedInts \cup UnsignedInts \cup {"bool", "string", "float64"}

\* the name of a basic type as its leading letters and the rest
NameTokens(name) ==
  CASE name = "int" -> <<"int">>
    [] name = "int8" -> <<"int", "8">>
    [] name = "int16" -> <<"int", "16">>
    [] name = "int32" -> <<"int", "32">>
    [] name = "int64" -> <<"int", "64">>
    [] name = "uint" -> <<"uint">>
    [] name = "uint8" -> <<"uint", "8">>
    [] name = "uint16" -> <<"uint", "16">>
    [] name = "uint32" -> <<"uint", "32">>
    [] name = "uint64" -> <<"uint", "64">>
    [] name = "uintptr" -> <<"uint", "ptr">>
    [] OTHER -> <<name>>

\* strconv.Atoi of the text after the prefix; its error is dropped, so a text
\* that is no number counts as 0
Atoi(tokens) ==
  IF Len(tokens) < 2 THEN 0
  ELSE CASE tokens[2] = "8" -> 8
         [] tokens[2] = "16" -> 16
         [] tokens[2] = "32" -> 32
         [] tokens[2] = "64" -> 64
         [] OTHER -> 0

to32(t) ==
  IF t = "int" THEN "int32"
  ELSE IF t = "uint" THEN "uint32"
  ELSE t

\* types.Type.Underlying: MyInt is declared as `type MyInt int`
Underlying(t) == IF t = "MyInt" THEN "int" ELSE t

\* the type is a *types.Pointer
IsPointer(t) == t \in {"*User", "*Home", "*string"}

\* types.Pointer.Elem
PtrElem(t) ==
  CASE t = "*User" -> "User"
    [] t = "*Home" -> "Home"
    [] t = "*string" -> "string"
    [] OTHER -> t

\* GetQualifiedTypeName: the name of the type under one pointer
GetQualifiedTypeName(t) == IF IsPointer(t) THEN PtrElem(t) ELSE t

\* mappersName(sourceType, destType)
mappersName(sourceType, destType) ==
  <<GetQualifiedTypeName(sourceType), GetQualifiedTypeName(destType)>>

\* CanCast(sourceType, destType)
CanCast(sourceType, destType) ==
  LET sourceTypeName == GetQualifiedTypeName(sourceType)
      sourceUnderlyingTypeName == GetQualifiedTypeName(Underlying(sourceType))
      destTypeName == GetQualifiedTypeName(destType)
      destUnderlyingTypeName == GetQualifiedTypeName(Underlying(destType))
      sbit == Atoi(NameTokens(to32(sourceType)))
      dbit == Atoi(NameTokens(to32(destType)))
  IN IF sourceTypeName = destUnderlyingTypeName \/ destTypeName = sourceUnderlyingTypeName
     THEN TRUE
     ELSE IF ~(sourceType \in BasicTypes /\ destType \in BasicTypes) THEN FALSE
     ELSE IF /\ HasPrefix(NameTokens(sourceType), "int")
             /\ HasPrefix(NameTokens(destType), "int")
             /\ dbit > sbit
     THEN TRUE
     ELSE IF /\ HasPrefix(NameTokens(sourceType), "uint")
             /\ HasPrefix(NameTokens(destType), "uint")
             /\ dbit < sbit
     THEN TRUE
     ELSE FALSE

\* the kind of a type: what the type switches of the generator look at
Kind(t) ==
  CASE t \in {"Todo", "TodoEntity", "User", "*User", "Home", "*Home", "Note",
              "NoteCopy", "Raw", "Cooked", "Meta"}
         -> "struct"
    [] t \in {"[]string", "[]int32"} -> "slice"
    [] t \in {"map[string][]string"} -> "map"
    [] t \in {"[2]string"} -> "array"
    [] OTHER -> "basic"

\* the element type of a collection type
Elem(t) ==
  CASE t = "[]string" -> "string"
    [] t = "[]int32" -> "int32"
    [] t = "map[string][]string" -> "[]string"
    [] t = "[2]string" -> "string"
    [] OTHER -> t

\* IsPointerPreferableType: false for the types whose underlying type is a
\* name of the universe, true for every other type
IsPointerPreferableType(t) ==
  LET e == IF IsPointer(t) THEN PtrElem(t) ELSE t
  IN Underlying(e) \notin BasicTypes

Field(name, typ) == [name |-> name, typ |-> typ]

\* the named struct type under a type: GetStructType / GetNamedType
StructOf(t) == IF IsPointer(t) THEN PtrElem(t) ELSE t

\* the fields of the struct types, in declaration order
StructFields(st) ==
  CASE st = "Todo" ->
         << Field("ID", "string"), Field("Title", "string"), Field("Done", "bool"),
            Field("UserID", "string"), Field("secret", "string") >>
    [] st = "TodoEntity" ->
         << Field("Id", "string"), Field("Title", "string"), Field("Finished", "bool"),
            Field("User", "*User"), Field("Tags", "[]string") >>
    [] st = "User" ->
         << Field("ID", "string"), Field("Name", "string"), Field("Home", "*Home") >>
    [] st = "Home" -> << Field("City", "string") >>
    [] st \in {"Note", "NoteCopy"} ->
         << Field("Title", "string"), Field("Tags", "[]string"),
            Field("Attributes", "map[string][]string") >>
    [] st = "Raw" ->
         << Field("IntList", "[]int32"), Field("Count", "int32"),
            Field("Label", "string"), Field("Inner", "Meta") >>
    [] st = "Meta" -> << Field("Labels", "[]string") >>
    [] st = "Cooked" ->
         << Field("StringList", "[]string"), Field("Count", "int64"),
            Field("Flag", "bool"), Field("Labels", "[]string") >>
    [] OTHER -> <<>>

\* the methods of the named types: a getter X() T, a setter SetX(T)
NamedMethods(st) ==
  CASE st = "Todo" -> << Field(<<"Secret">>, "string") >>
    [] st = "TodoEntity" ->
         << Field(<<"Done">>, "bool"), Field(<<"Set", "UserID">>, "string") >>
    [] OTHER -> <<>>

NotFoundField == [ok |-> FALSE, name |-> "", typ |-> ""]

\* the first of the positions S at which a loop finds a match, or 0
FirstIndex(S) == IF S = {} THEN 0 ELSE CHOOSE i \in S : \A j \in S : i <= j

RECURSIVE GetField(_, _, _)
GetField(st, name, ignoreCase) ==
  LET fs == StructFields(st)
      i == FirstIndex({k \in 1..Len(fs) :
                         SameName(<<fs[k].name>>, <<Head(name)>>, ignoreCase)})
  IN IF name = <<>> THEN NotFoundField
     ELSE IF i = 0 THEN NotFoundField
     ELSE IF Len(name) > 1
     THEN IF Kind(fs[i].typ) # "struct" THEN NotFoundField
          ELSE GetField(StructOf(fs[i].typ), Tail(name), ignoreCase)
     ELSE [ok |-> TRUE, name |-> fs[i].name, typ |-> fs[i].typ]

\* GetMethod(nm, name, ignoreCase): a dotted name is no method's name
GetMethod(nm, name, ignoreCase) ==
  LET ms == NamedMethods(nm)
      i == FirstIndex({k \in 1..Len(ms) : SameName(ms[k].name, name, ignoreCase)})
  IN IF i = 0 THEN NotFoundField
     ELSE [ok |-> TRUE, name |-> ms[i].name, typ |-> ms[i].typ]

(***************************************************************************)
(* MappingValue: a local variable, or a property of an object reached      *)
(* through an exported field or through getter and setter methods.         *)
(***************************************************************************)
NoName == <<>>

NewLocalMappingValue(name, typ) ==
  [local |-> TRUE, base |-> name, field |-> "", ftyp |-> typ,
   getter |-> NotFoundField, setter |-> NotFoundField]

CanGet(v) == v.local \/ v.field # "" \/ v.getter.ok

CanSet(v) == v.local \/ v.field # "" \/ v.setter.ok

\* MappingValue.Type
Type(v) ==
  IF v.local \/ v.field # "" THEN v.ftyp
  ELSE IF v.getter.ok THEN v.getter.typ
  ELSE v.setter.typ

\* MappingValue.GetGetterSource
GetGetterSource(v) ==
  IF v.local THEN [path |-> v.base, call |-> FALSE]
  ELSE IF v.field # "" THEN [path |-> v.base \o <<v.field>>, call |-> FALSE]
  ELSE [path |-> v.base \o v.getter.name, call |-> TRUE]

\* MappingValue.DisplayName
DisplayName(v) ==
  IF v.local THEN [path |-> v.base, call |-> FALSE]
  ELSE IF v.field # "" THEN [path |-> v.base \o <<v.field>>, call |-> FALSE]
  ELSE IF v.getter.ok THEN [path |-> v.base \o v.getter.name, call |-> TRUE]
  ELSE [path |-> v.base \o v.setter.name, call |-> TRUE]

\* the place MappingValue.GetSetterSource assigns to
GetSetterSource(v) ==
  IF v.local THEN [path |-> v.base, call |-> FALSE]
  ELSE IF v.field # "" THEN [path |-> v.base \o <<v.field>>, call |-> FALSE]
  ELSE [path |-> v.base \o v.setter.name, call |-> TRUE]

NilValue == [ok |-> FALSE, v |-> NewLocalMappingValue(NoName, "")]

NewObjectPropertyMappingValue(base, named, name, ignoreCase) ==
  LET f == GetField(named, name, ignoreCase)
      setter == GetMethod(named, <<"Set">> \o name, ignoreCase)
      getter == GetMethod(named, name, ignoreCase)
      ret == [local |-> FALSE, base |-> base, field |-> "", ftyp |-> "",
              getter |-> getter, setter |-> setter]
  IN IF f.ok /\ Exported(f.name)
     THEN [ok |-> TRUE,
           v |-> [local |-> FALSE, base |-> base \o SubSeq(name, 1, Len(name) - 1),
                  field |-> f.name, ftyp |-> f.typ,
                  getter |-> NotFoundField, setter |-> NotFoundField]]
     ELSE IF CanGet(ret) \/ CanSet(ret) THEN [ok |-> TRUE, v |-> ret]
     ELSE NilValue

(***************************************************************************)
(* ObjectMapping: FieldMappings.Pair, Ignores.Contains, AddField.          *)
(***************************************************************************)
OperandTypes == {"A", "B"}

Inverted(typ) == IF typ = "A" THEN "B" ELSE "A"

FieldMapping(a, b) == [A |-> a, B |-> b]

Value(m, typ) == IF typ = "A" THEN m.A ELSE m.B

Pair(f, typ, value) ==
  LET i == FirstIndex({k \in 1..Len(f) : Value(f[k], typ) = value})
  IN IF i = 0 THEN [ok |-> FALSE, name |-> NoName]
     ELSE [ok |-> TRUE, name |-> Value(f[i], Inverted(typ))]

Contains(f, typ, value) == \E i \in 1..Len(f) : Value(f[i], typ) = value

\* NilCollection: how nil maps and nil slices are mapped
NilCollectionUnknown == "unknown"
NilCollectionAsNil == "nil"
NilCollectionAsEmpty == "empty"

\* NewObjectMapping with ExplicitOnly, one AddField and IgnoreCase: the
\* mapping of a nested source path
NestMapping(typ, v1, v2, ignoreCase) ==
  [ExplicitOnly |-> TRUE, IgnoreCase |-> ignoreCase, AllowUnmapped |-> FALSE,
   Fields |-> << IF typ = "A" THEN FieldMapping(v1, v2) ELSE FieldMapping(v2, v1) >>,
   Ignores |-> <<>>, NilMap |-> NilCollectionUnknown, NilSlice |-> NilCollectionUnknown]

\* the errors of the generator
UnmappedField(struct, field) ==
  <<[t |-> "Unmapped field", struct |-> struct, field |-> field]>>

CouldNotMap(getter, destName) ==
  <<[t |-> "Could not map a field", source |-> getter, dest |-> destName]>>

\* "type mismatch: %s and %s should be ...": a and b are the display names of
\* the values (array, slice) or their types (map)
TypeMismatch(kind, a, b) == <<[t |-> "type mismatch", kind |-> kind, a |-> a, b |-> b]>>

NotAStruct(typ) == <<[t |-> "is not a struct", typ |-> typ]>>

(***************************************************************************)
(* genFieldMapStmts and genAssignStmt: the statements printed for one      *)
(* resolved pair of values.                                                *)
(***************************************************************************)
\* objectPropertyMappingValue.CanAddr / localMappingValue.CanAddr
CanAddr(v) ==
  \/ v.local
  \/ v.field # ""
  \/ v.getter.ok /\ IsPointer(v.getter.typ)

\* no mapper function field: the two type names are the same
NoFunc == <<>>

\* GetMapperFuncFieldName finding no field for any pair of types
GetMapperFuncFieldNameNone(sourceType, destType) == NoFunc

\* MappingContext.GetMapperFuncFieldName: the field of the generated mapper
\* that holds the function for the pair of type names, one field per pair
GetMapperFuncFieldName(sourceType, destType) ==
  IF GetQualifiedTypeName(sourceType) = GetQualifiedTypeName(destType) THEN NoFunc
  ELSE mappersName(sourceType, destType)

\* a printed statement.  op is the kind of statement; source and dest are
\* the expression read and the place assigned; the other fields are filled
\* in by the kind of statement that has them
Stmt(op, sourceValue, destValue) ==
  [op |-> op, source |-> GetGetterSource(sourceValue),
   dest |-> GetSetterSource(destValue),
   sourceType |-> Type(sourceValue), destType |-> Type(destValue), body |-> <<>>,
   mf |-> NoFunc, arg |-> "", destArg |-> "", direct |-> "",
   onNil |-> "", elmAssign |-> <<>>, tail |-> <<>>]

\* genAssignStmt prints
\*   if m.<mf> != nil { if err := m.<mf>(ctx, <arg>, <destArg>); err != nil
\*     { return err } [else { dest = v }] } else { <direct> }
\* without the if when there is no mapper function field.  arg: the source
\* as it is ("value"), its address ("addr"), the address of a copy
\* ("copyaddr") or what it points to ("deref"); destArg: the destination
\* pointer ("value"), its address ("addr"), or a new variable v that is
\* then assigned ("tmp", "tmpaddr"); direct: the assignment of the else
\* branch, "copy", "deref", "addr", "copyaddr", a "cast", or "none"
genAssignStmt(sourceValue, destValue) ==
  LET sourceType == Type(sourceValue)
      destType == Type(destValue)
      sourceIsPointer == IsPointer(sourceType)
      sourceIsPointerPreferable == IsPointerPreferableType(sourceType)
      destIsPointer == IsPointer(destType)
      mf == GetMapperFuncFieldName(sourceType, destType)
      arg == IF sourceIsPointerPreferable
             THEN IF sourceIsPointer THEN "value"
                  ELSE IF CanAddr(sourceValue) THEN "addr" ELSE "copyaddr"
             ELSE IF sourceIsPointer THEN "deref" ELSE "value"
      destArg == IF CanAddr(destValue)
                 THEN IF destIsPointer THEN "value" ELSE "addr"
                 ELSE IF destIsPointer THEN "tmp" ELSE "tmpaddr"
      direct == IF GetQualifiedTypeName(sourceType) = GetQualifiedTypeName(destType)
                THEN IF sourceIsPointer = destIsPointer THEN "copy"
                     ELSE IF sourceIsPointer THEN "deref"
                     ELSE IF CanAddr(sourceValue) THEN "addr" ELSE "copyaddr"
                ELSE IF CanCast(sourceType, destType) THEN "cast"
                ELSE "none"
  IN [Stmt("assign", sourceValue, destValue) EXCEPT
        !.mf = mf,
        !.arg = IF mf = NoFunc THEN "" ELSE arg,
        !.destArg = IF mf = NoFunc THEN "" ELSE destArg,
        !.direct = direct]

\* genFieldMapStmts.  For a collection it prints a statement that tests the
\* source for nil (onNil: what the nil branch assigns), loops over the
\* elements with body mapping elm to tmp, stores tmp (append for a slice,
\* elmAssign for an array or a map) and at the end assigns the collection
\* built (tail).  The variables sl<n>, tmp<n>, arr<n>, map<n> are written
\* without their numbers: each is used only inside its own statement.
RECURSIVE genFieldMapStmts(_, _, _)
genFieldMapStmts(sourceValue, destValue, m) ==
  LET sourceType == Type(sourceValue)
      destType == Type(destValue)
      kind == Kind(sourceType)
  IN IF kind \in {"array", "slice", "map"}
     THEN IF Kind(destType) # kind
          THEN [err |-> IF kind = "map"
                        THEN TypeMismatch("map", sourceType, destType)
                        ELSE TypeMismatch(kind, DisplayName(sourceValue),
                                          DisplayName(destValue)),
                out |-> <<>>]
          ELSE LET elm == genFieldMapStmts(
                            NewLocalMappingValue(<<"elm">>, Elem(sourceType)),
                            NewLocalMappingValue(<<"tmp">>, Elem(destType)), m)
                   store == IF kind = "slice" THEN <<>>
                            ELSE << genAssignStmt(
                                      NewLocalMappingValue(<<"tmp">>, Elem(sourceType)),
                                      NewLocalMappingValue(<<"built", "[]">>, Elem(destType))) >>
                   built == genAssignStmt(NewLocalMappingValue(<<"built">>, destType),
                                          destValue)
               IN IF elm.err # NoErr THEN [err |-> elm.err, out |-> <<>>]
                  ELSE [err |-> NoErr,
                        out |-> << [Stmt(kind, sourceValue, destValue) EXCEPT
                                      !.body = elm.out,
                                      !.onNil = IF kind = "slice" THEN m.NilSlice
                                                ELSE IF kind = "map" THEN m.NilMap
                                                ELSE "",
                                      !.elmAssign = store,
                                      !.tail = <<built>>] >>]
     ELSE IF kind = "chan" THEN [err |-> NoErr, out |-> <<>>]
     ELSE [err |-> NoErr, out |-> << genAssignStmt(sourceValue, destValue) >>]

(***************************************************************************)
(* genMapFuncBody.  c is a call of it: the source object (its name and      *)
(* type), sourceNameBase, the dest object, destNameBase, the mapping and   *)
(* the OperandType of the source.                                          *)
(***************************************************************************)
Call(source, sbase, dest, dbase, m, typ) ==
  [source |-> source, sbase |-> sbase, dest |-> dest, dbase |-> dbase,
   mapping |-> m, typ |-> typ]

Continue == [err |-> NoErr, out |-> <<>>]

\* the nil guards of a destination path emitted for none of its segments
NestGuardsNone(c, destName, i) == <<>>

\* the nil guards printed for the intermediate segments of a destination path
RECURSIVE NestGuards(_, _, _)
NestGuards(c, destName, i) ==
  IF i >= Len(destName) THEN <<>>
  ELSE LET nestName == SubSeq(destName, 1, i)
           nestField == GetField(StructOf(c.dest.typ), nestName, c.mapping.IgnoreCase)
       IN (IF nestField.ok
           THEN << [op |-> "init", source |-> [path |-> NoName, call |-> FALSE],
                    dest |-> [path |-> c.dbase \o nestName, call |-> FALSE],
                    sourceType |-> nestField.typ, destType |-> nestField.typ,
                    body |-> <<>>] >>
           ELSE <<>>) \o NestGuards(c, destName, i + 1)

\* the unmapped-field error with the destination struct's name in it
OnUnmappedNamesDest(c, sourceField) ==
  IF c.mapping.AllowUnmapped THEN Continue
  ELSE [err |-> UnmappedField(c.dest.name, sourceField.name), out |-> <<>>]

\* the implicit branch when the destination has no writable field of the
\* name, as it would be if AllowUnmapped were always taken as set
OnUnmappedAlwaysAllowed(c, sourceField) == Continue

\* the implicit branch when the destination has no writable field of the name
OnUnmapped(c, sourceField) ==
  IF c.mapping.AllowUnmapped THEN Continue
  ELSE [err |-> UnmappedField(c.source.name, sourceField.name), out |-> <<>>]

\* ExplicitOnly taken as never set
IsExplicitOnlyNever(m) == FALSE

\* the test of the implicit branch: `else if !mapping.ExplicitOnly`
IsExplicitOnly(m) == m.ExplicitOnly

\* one iteration of the loop over the fields of the source struct
FieldStep(c, sourceField) ==
  LET m == c.mapping
      name == <<sourceField.name>>
      sourceValue == NewObjectPropertyMappingValue(c.sbase, StructOf(c.source.typ),
                                                   name, m.IgnoreCase)
      pair == Pair(m.Fields, c.typ, name)
      explicit == NewObjectPropertyMappingValue(c.dbase, StructOf(c.dest.typ),
                                                pair.name, m.IgnoreCase)
      implicit == NewObjectPropertyMappingValue(c.dbase, StructOf(c.dest.typ),
                                                name, m.IgnoreCase)
  IN IF Contains(m.Ignores, c.typ, name) THEN Continue
     ELSE IF ~sourceValue.ok \/ ~CanGet(sourceValue.v) THEN Continue
     ELSE IF pair.ok
     THEN IF pair.name = Wildcard
          THEN genFieldMapStmts(sourceValue.v,
                                NewLocalMappingValue(c.dbase, Type(sourceValue.v)), m)
          ELSE LET guards == NestGuards(c, pair.name, 1) IN
               IF ~(explicit.ok /\ CanSet(explicit.v))
               THEN [err |-> CouldNotMap(GetGetterSource(sourceValue.v), pair.name),
                     out |-> guards]
               ELSE LET g == genFieldMapStmts(sourceValue.v, explicit.v, m)
                    IN [err |-> g.err, out |-> guards \o g.out]
     ELSE IF ~IsExplicitOnly(m)
     THEN IF ~(implicit.ok /\ CanSet(implicit.v))
          THEN OnUnmapped(c, sourceField)
          ELSE genFieldMapStmts(sourceValue.v, implicit.v, m)
     ELSE Continue

(***************************************************************************)
(* SpecGen: genMapFunc generates one direction of a mapping between the    *)
(* operands A (Todo) and B (TodoEntity) for every ObjectMapping drawn from *)
(* the choices below.                                                      *)
(***************************************************************************)
TodoUnit == [A |-> "Todo", B |-> "TodoEntity"]

OperandStruct(typ) == IF typ = "A" THEN structs.A ELSE structs.B

PairChoices ==
  { FieldMapping(<<"Done">>, <<"Finished">>),
    FieldMapping(<<"Done">>, <<"finished">>),
    FieldMapping(<<"ID">>, <<"Id">>),
    FieldMapping(<<"ID">>, <<"Title">>),
    FieldMapping(<<"UserID">>, <<"User", "ID">>),
    FieldMapping(<<"Title">>, <<"Missing">>),
    FieldMapping(<<"Title">>, <<"Tags">>),
    FieldMapping(Wildcard, <<"Title">>),
    FieldMapping(Wildcard, <<"Missing">>) }

\* an ignore entry names the path of one side
IgnoreChoices ==
  { <<>>,
    << FieldMapping(<<"Done">>, NoName) >>,
    << FieldMapping(NoName, <<"Finished">>), FieldMapping(NoName, <<"User">>) >>,
    << FieldMapping(<<"ID">>, NoName), FieldMapping(NoName, <<"Tags">>) >>,
    << FieldMapping(NoName, <<"Title">>) >> }

FieldMappingsUpTo(n) ==
  UNION { [1..k -> PairChoices] : k \in 0..n }

ObjectMappings ==
  [ExplicitOnly : BOOLEAN, IgnoreCase : BOOLEAN, AllowUnmapped : BOOLEAN,
   Fields : FieldMappingsUpTo(MaxFieldPairs), Ignores : IgnoreChoices,
   NilMap : {NilCollectionAsNil}, NilSlice : {NilCollectionAsNil}]

InitGen ==
  /\ operand \in OperandTypes
  /\ structs = TodoUnit
  /\ mapping \in ObjectMappings
  /\ genpc = [state |-> "ready", stack |-> <<>>]
  /\ genout = <<>>
  /\ generr = NoErr

\* the call genMapFunc makes
TopCall ==
  Call([name |-> OperandStruct(operand), typ |-> OperandStruct(operand)], <<"source">>,
       [name |-> OperandStruct(Inverted(operand)),
        typ |-> OperandStruct(Inverted(operand))], <<"dest">>,
       mapping, operand)

\* a call of genMapFuncBody in progress: "enter" before the loops, "fields"
\* in the loop over the source fields at field i, "nested" in the loop over
\* mapping.Fields at entry i
Frame(c, phase, i) == [c |-> c, phase |-> phase, i |-> i]

Running(phase) ==
  /\ genpc.state = "run"
  /\ Head(genpc.stack).phase = phase

\* a call returns err: every caller returns it in turn; out was printed before
Fail(err, out) ==
  /\ genpc' = [state |-> "done", stack |-> <<>>]
  /\ generr' = err
  /\ genout' = genout \o out

\* the call on top returns nil
Return(out) ==
  /\ genpc' = [state |-> IF Len(genpc.stack) = 1 THEN "done" ELSE "run",
               stack |-> Tail(genpc.stack)]
  /\ genout' = genout \o out
  /\ UNCHANGED generr

\* the call on top goes on at position i of the given loop
Goto(phase, i, out) ==
  /\ genpc' = [genpc EXCEPT !.stack[1] = Frame(Head(genpc.stack).c, phase, i)]
  /\ genout' = genout \o out
  /\ UNCHANGED generr

\* genMapFunc calls genMapFuncBody for the operands of the direction
GenMapFunc ==
  /\ genpc.state = "ready"
  /\ genpc' = [state |-> "run", stack |-> << Frame(TopCall, "enter", 0) >>]
  /\ UNCHANGED <<operand, structs, mapping, genout, generr>>
  /\ UNCHANGED <<regVars, thrVars, restVars>>

\* genMapFuncBody up to its loops: the struct tests and the embedded case
GenEnter ==
  /\ Running("enter")
  /\ LET c == Head(genpc.stack).c
         embedded == Pair(c.mapping.Fields, c.typ, Wildcard)
         destField == GetField(StructOf(c.dest.typ), embedded.name, c.mapping.IgnoreCase)
         g == genFieldMapStmts(
                NewLocalMappingValue(c.sbase, destField.typ),
                NewLocalMappingValue(c.dbase \o embedded.name, destField.typ),
                c.mapping)
     IN IF Kind(c.source.typ) # "struct" THEN Fail(NotAStruct(c.source.typ), <<>>)
        ELSE IF Kind(c.dest.typ) # "struct" THEN Fail(NotAStruct(c.dest.typ), <<>>)
        ELSE IF embedded.ok
        THEN IF ~destField.ok
             THEN \* destField is nil: destField.Type() dereferences it
                  /\ genpc' = [state |-> "panic", stack |-> <<>>]
                  /\ UNCHANGED <<genout, generr>>
             ELSE IF g.err # NoErr THEN Fail(g.err, g.out)
             ELSE Return(g.out)
        ELSE Goto("fields", 1, <<>>)
  /\ UNCHANGED <<operand, structs, mapping>>
  /\ UNCHANGED <<regVars, thrVars, restVars>>

\* one iteration of the loop over the fields of the source struct
GenField ==
  /\ Running("fields")
  /\ LET top == Head(genpc.stack)
         fs == StructFields(StructOf(top.c.source.typ))
         r == FieldStep(top.c, fs[top.i])
     IN IF top.i > Len(fs) THEN Goto("nested", 1, <<>>)
        ELSE IF r.err # NoErr THEN Fail(r.err, r.out)
        ELSE Goto("fields", top.i + 1, r.out)
  /\ UNCHANGED <<operand, structs, mapping>>
  /\ UNCHANGED <<regVars, thrVars, restVars>>

\* one iteration of the loop over mapping.Fields: a source path of several
\* segments is mapped by a call of genMapFuncBody for its first field
GenNested ==
  /\ Running("nested")
  /\ LET top == Head(genpc.stack)
         c == top.c
         fm == c.mapping.Fields[top.i]
         sourceFieldName == Value(fm, c.typ)
         destFieldName == Value(fm, Inverted(c.typ))
         f == GetField(StructOf(c.source.typ), <<Head(sourceFieldName)>>,
                       c.mapping.IgnoreCase)
         nest == Call([name |-> f.name, typ |-> f.typ],
                      c.sbase \o <<Head(sourceFieldName)>>, c.dest, c.dbase,
                      NestMapping(c.typ, Tail(sourceFieldName), destFieldName,
                                  c.mapping.IgnoreCase),
                      c.typ)
     IN IF top.i > Len(c.mapping.Fields) THEN Return(<<>>)
        ELSE IF Len(sourceFieldName) > 1 /\ f.ok
        THEN /\ genpc' = [genpc EXCEPT !.stack =
                            << Frame(nest, "enter", 0), Frame(c, "nested", top.i + 1) >>
                            \o Tail(genpc.stack)]
             /\ UNCHANGED <<genout, generr>>
        ELSE Goto("nested", top.i + 1, <<>>)
  /\ UNCHANGED <<operand, structs, mapping>>
  /\ UNCHANGED <<regVars, thrVars, restVars>>

NextGen == GenMapFunc \/ GenEnter \/ GenField \/ GenNested

InitSpecGen == InitRegistry /\ InitThreads /\ InitGen /\ InitRestIdle

SpecGen == InitSpecGen /\ [][NextGen]_vars

\* the fields of the operand mapped from, and the struct mapped to
SourceFields == StructFields(OperandStruct(operand))
DestStruct == OperandStruct(Inverted(operand))

\* a field that can be read: exported, or with a getter method of its name
Readable(st, name) ==
  \/ Exported(name)
  \/ \E k \in 1..Len(NamedMethods(st)) :
        SameName(NamedMethods(st)[k].name, <<name>>, mapping.IgnoreCase)

\* struct st has a writable field of that name: an exported field, or a
\* setter method Set<name>
Writable(st, name) ==
  \/ \E k \in 1..Len(StructFields(st)) :
        /\ SameName(<<StructFields(st)[k].name>>, <<name>>, mapping.IgnoreCase)
        /\ Exported(StructFields(st)[k].name)
  \/ \E k \in 1..Len(NamedMethods(st)) :
        SameName(NamedMethods(st)[k].name, <<"Set", name>>, mapping.IgnoreCase)

Ignored(name) ==
  \E k \in 1..Len(mapping.Ignores) : Value(mapping.Ignores[k], operand) = <<name>>

HasExplicit(name) ==
  \E k \in 1..Len(mapping.Fields) : Value(mapping.Fields[k], operand) = <<name>>

\* the whole operand is mapped to one embedded destination field
WholeOperand == HasExplicit("*")

\* the source fields (by position) the implicit mapping finds no place for
UnmappedAt ==
  { i \in 1..Len(SourceFields) :
      LET name == SourceFields[i].name IN
      /\ Readable(OperandStruct(operand), name)
      /\ ~Ignored(name)
      /\ ~HasExplicit(name)
      /\ ~Writable(DestStruct, name) }

\* the resolution of the i-th source field fails for a reason of its own
FailsOtherwise(i) ==
  LET r == FieldStep(TopCall, SourceFields[i])
  IN r.err # NoErr /\ Head(r.err).t # "Unmapped field"

IsUnmappedError(err) == err # NoErr /\ Head(err).t = "Unmapped field"

\* a printed statement reads the source field of that name
ReadsField(stmt, name) ==
  /\ Len(stmt.source.path) = 2
  /\ stmt.source.path[1] = "source"
  /\ SameName(<<stmt.source.path[2]>>, <<name>>, mapping.IgnoreCase)

\* C10: with ExplicitOnly = false, when a readable, non-ignored source field
\* has no explicit correspondence and the destination has no writable field
\* of the same name: under AllowUnmapped = false generation fails, with the
\* unmapped-field error naming the first such field unless the resolution of
\* an earlier field has failed already; under AllowUnmapped = true no
\* unmapped-field error is raised, no statement is printed for such a field,
\* and generation succeeds unless another field's own resolution fails.
C10_UnmappedFieldError ==
  (genpc.state = "done" /\ ~mapping.ExplicitOnly /\ ~WholeOperand /\ UnmappedAt # {}) =>
    LET u == CHOOSE i \in UnmappedAt : \A j \in UnmappedAt : i <= j
    IN IF ~mapping.AllowUnmapped
       THEN /\ generr # NoErr
            /\ \/ generr = UnmappedField(OperandStruct(operand), SourceFields[u].name)
               \/ \E i \in 1..(u - 1) : FailsOtherwise(i)
       ELSE /\ ~IsUnmappedError(generr)
            /\ \A i \in UnmappedAt : \A k \in 1..Len(genout) :
                  ~ReadsField(genout[k], SourceFields[i].name)
            /\ (\A i \in 1..Len(SourceFields) : ~FailsOtherwise(i)) => generr = NoErr

\* generation has failed on an unmapped field that is not the first of the
\* source struct, and has printed the statements of the fields before it
C10_Witness ==
  /\ genpc.state = "done"
  /\ ~mapping.ExplicitOnly /\ ~mapping.AllowUnmapped /\ ~WholeOperand
  /\ UnmappedAt # {}
  /\ 1 \notin UnmappedAt
  /\ IsUnmappedError(generr)
  /\ genout # <<>>

(***************************************************************************)
(* SpecCast: CanCast applied to every pair of the types below.             *)
(***************************************************************************)
CastTypes == BasicTypes \cup {"MyInt"}

InitCast ==
  /\ castSource \in CastTypes
  /\ castDest \in CastTypes
  /\ castResult = [done |-> FALSE, ok |-> FALSE]

CanCastStep ==
  /\ ~castResult.done
  /\ castResult' = [done |-> TRUE, ok |-> CanCast(castSource, castDest)]
  /\ UNCHANGED <<castSource, castDest>>
  /\ UNCHANGED notCast

NextCast == CanCastStep

InitSpecCast ==
  InitRegistry /\ InitThreads /\ InitGenIdle /\ InitCast /\ InitGenerateIdle /\ InitRunIdle

SpecCast == InitSpecCast /\ [][NextCast]_vars

\* the integer types whose name states their width
SizedInts ==
  {"int8", "int16", "int32", "int64", "uint8", "uint16", "uint32", "uint64"}

BitWidth(t) == Atoi(NameTokens(t))

SameFamily(a, b) ==
  \/ a \in SignedInts /\ b \in SignedInts
  \/ a \in UnsignedInts /\ b \in UnsignedInts

\* C19: for two distinct integer types of stated width, CanCast is true if
\* and only if both are signed or both unsigned and the destination is at
\* least as wide as the source; it is never true for a narrower destination.
C19_CastIffWidening ==
  (/\ castResult.done
   /\ castSource \in SizedInts /\ castDest \in SizedInts
   /\ castSource # castDest) =>
    (castResult.ok <=> (/\ SameFamily(castSource, castDest)
                        /\ BitWidth(castDest) >= BitWidth(castSource)))

(***************************************************************************)
(* C11: which operand's fields decide the unmapped-field error.            *)
(***************************************************************************)
DestFields == StructFields(DestStruct)

DestIgnored(name) ==
  \E k \in 1..Len(mapping.Ignores) :
     Value(mapping.Ignores[k], Inverted(operand)) = <<name>>

\* an explicit correspondence names the destination field, or a path under it
DestHasExplicit(name) ==
  \E k \in 1..Len(mapping.Fields) :
     LET d == Value(mapping.Fields[k], Inverted(operand))
     IN d # NoName /\ SameName(<<Head(d)>>, <<name>>, mapping.IgnoreCase)

\* the source operand has a readable field of that name
SourceHasSame(name) ==
  \E i \in 1..Len(SourceFields) :
     /\ SameName(<<SourceFields[i].name>>, <<name>>, mapping.IgnoreCase)
     /\ Readable(OperandStruct(operand), SourceFields[i].name)

\* the destination fields (by position) that nothing is mapped to
DestUnmappedAt ==
  { j \in 1..Len(DestFields) :
      LET name == DestFields[j].name IN
      /\ Exported(name)
      /\ ~DestIgnored(name)
      /\ ~DestHasExplicit(name)
      /\ ~SourceHasSame(name) }

\* a printed statement assigns the destination field of that name
AssignsField(stmt, name) ==
  /\ Len(stmt.dest.path) >= 2
  /\ stmt.dest.path[1] = "dest"
  /\ SameName(<<stmt.dest.path[2]>>, <<name>>, mapping.IgnoreCase)

\* C11 as stated: with ExplicitOnly = false and AllowUnmapped = false, a
\* non-ignored destination field without an explicit correspondence and
\* without a same-named source field makes the generation of the direction
\* fail with an unmapped-field error.
C11_DestFieldUnmappedFails ==
  (/\ genpc.state = "done"
   /\ ~mapping.ExplicitOnly /\ ~mapping.AllowUnmapped /\ ~WholeOperand
   /\ DestUnmappedAt # {}) => IsUnmappedError(generr)

\* C11, amended: with ExplicitOnly = false and AllowUnmapped = false the
\* fields of the source operand decide: an unmapped-field error names a
\* readable, non-ignored field of the source struct that has no explicit
\* correspondence and no same-named writable destination field, and there
\* is none when every source field has a place; a destination field that
\* nothing is mapped to raises no error, and a generation that succeeds has
\* printed no assignment to it.
C11_SourceFieldsDecide ==
  (/\ genpc.state = "done"
   /\ ~mapping.ExplicitOnly /\ ~mapping.AllowUnmapped /\ ~WholeOperand) =>
    /\ IsUnmappedError(generr) =>
         \E i \in UnmappedAt :
            generr = UnmappedField(OperandStruct(operand), SourceFields[i].name)
    /\ UnmappedAt = {} => ~IsUnmappedError(generr)
    /\ generr = NoErr =>
         \A j \in DestUnmappedAt : \A k \in 1..Len(genout) :
            ~AssignsField(genout[k], DestFields[j].name)

\* generation has succeeded although a destination field has nothing mapped
\* to it
C11_Witness ==
  /\ genpc.state = "done"
  /\ ~mapping.ExplicitOnly /\ ~mapping.AllowUnmapped /\ ~WholeOperand
  /\ DestUnmappedAt # {}
  /\ UnmappedAt = {}
  /\ generr = NoErr
  /\ genout # <<>>

(***************************************************************************)
(* generator.Generate and printer.Close.  A mapping of the configuration   *)
(* is a record of its Name, its Destination, Bidirectional, and which of   *)
(* the calls made for it returns an error: ParseStruct ("parse"),          *)
(* genMapFunc for OperandA ("A") or for OperandB ("B"), or none.  The text *)
(* of a file is the sequence of the pieces printed into it.                *)
(***************************************************************************)
\* mappings of one configuration
MaxMappings == 2

Destinations == {"a_gen.go", "b_gen.go"}
MappersDestination == "mappers_gen.go"
Paths == Destinations \cup {MappersDestination}

MappingNames == <<"TodoMapper", "UserMapper", "TagMapper">>

Mappings(k) ==
  [Name : {MappingNames[k]}, Destination : Destinations, Bidirectional : BOOLEAN,
   fails : {"none", "parse", "A", "B"}]

Configs ==
  UNION { {c \in [1..n -> UNION {Mappings(k) : k \in 1..n}] :
             \A k \in 1..n : c[k].Name = MappingNames[k]} : n \in 1..MaxMappings }

\* no file at a path
NoFile == [exists |-> FALSE, text |-> <<>>]
\* a file left by an earlier run
OldFile == [exists |-> TRUE, text |-> << [unit |-> "", part |-> "old", typ |-> "", complete |-> TRUE] >>]

Piece(unit, part, typ, complete) ==
  [unit |-> unit, part |-> part, typ |-> typ, complete |-> complete]

ParseError(unit) == <<[t |-> "ParseStruct", unit |-> unit]>>
FieldError(unit, typ) == <<[t |-> "field", unit |-> unit, typ |-> typ]>>

InitGenerate ==
  /\ config \in Configs
  /\ files \in [Paths -> {NoFile, OldFile}]
  /\ dests = [d \in Destinations |-> <<>>]
  /\ printers = <<>>
  /\ gpc = [at |-> "start", dest |-> "", i |-> 0]
  /\ gerr = NoErr

\* the destinations of config[1..n]
DestinationsOf(n) == { config[k].Destination : k \in 1..n }

\* the mappings of destination d, in the order of the configuration
RECURSIVE MappingsOf(_, _)
MappingsOf(d, n) ==
  IF n = 0 THEN <<>>
  ELSE MappingsOf(d, n - 1) \o
       (IF config[n].Destination = d THEN << config[n] >> ELSE <<>>)

\* NewPrinter(dest): OpenFile with O_APPEND|O_WRONLY|O_CREATE
NewPrinter(dest) == [path |-> dest, buf |-> <<>>]

\* genMapFunc prints the function's first line, then genMapFuncBody prints
\* the statements of the fields it resolves until one fails
genMapFunc(m, typ) ==
  IF m.fails = typ
  THEN [err |-> FieldError(m.Name, typ), out |-> << Piece(m.Name, "func", typ, FALSE) >>]
  ELSE [err |-> NoErr, out |-> << Piece(m.Name, "func", typ, TRUE) >>]

\* what Generate prints for one mapping: the interfaces, the constructor and
\* the struct, then the mapping functions
GenerateMapping(m) ==
  LET decl == << Piece(m.Name, "decl", "", TRUE) >>
      a == genMapFunc(m, "A")
      b == genMapFunc(m, "B")
  IN IF a.err # NoErr THEN [err |-> a.err, out |-> decl \o a.out]
     ELSE IF m.Bidirectional
     THEN [err |-> b.err, out |-> decl \o a.out \o b.out]
     ELSE [err |-> NoErr, out |-> decl \o a.out]

\* the first loop of Generate: the mappings by destination, old files removed
GenerateStart ==
  /\ gpc.at = "start"
  /\ dests' = [d \in Destinations |-> MappingsOf(d, Len(config))]
  /\ files' = [p \in Paths |->
                 IF p \in DestinationsOf(Len(config)) THEN NoFile ELSE files[p]]
  /\ gpc' = [at |-> "dests", dest |-> "", i |-> 0]
  /\ UNCHANGED <<config, printers, gerr>>
  /\ UNCHANGED notFile

\* Generate returns err: the deferred Close calls run
ReturnErr(err, ps) ==
  /\ gerr' = err
  /\ printers' = ps
  /\ gpc' = [at |-> "closing", dest |-> "", i |-> 0]

\* the next destination of `for dest, mappings := range dests`, in the order
\* the map yields: a printer is made, its Close deferred, the structs parsed
\* and the head of the file printed
GenerateDest ==
  /\ gpc.at = "dests"
  /\ \E d \in Destinations :
        /\ dests[d] # <<>>
        /\ \A k \in 1..Len(printers) : printers[k].path # d
        /\ LET pr == NewPrinter(d)
               ms == dests[d]
               bad == {k \in 1..Len(ms) : ms[k].fails = "parse"}
           IN /\ files' = [files EXCEPT ![d] = [exists |-> TRUE, text |-> files[d].text]]
              /\ IF bad # {}
                 THEN ReturnErr(ParseError(ms[FirstIndex(bad)].Name), <<pr>> \o printers)
                 ELSE /\ printers' = << [pr EXCEPT !.buf = << Piece("", "head", "", TRUE) >>] >>
                                      \o printers
                      /\ gpc' = [at |-> "mapping", dest |-> d, i |-> 1]
                      /\ UNCHANGED gerr
  /\ UNCHANGED <<config, dests>>
  /\ UNCHANGED notFile

\* one turn of `for _, elem := range lst`
GenerateUnit ==
  /\ gpc.at = "mapping"
  /\ LET ms == dests[gpc.dest]
         r == GenerateMapping(ms[gpc.i])
         pr == [Head(printers) EXCEPT !.buf = @ \o r.out]
     IN IF gpc.i > Len(ms)
        THEN /\ gpc' = [at |-> "dests", dest |-> "", i |-> 0]
             /\ UNCHANGED <<printers, gerr>>
        ELSE IF r.err # NoErr
        THEN ReturnErr(r.err, <<pr>> \o Tail(printers))
        ELSE /\ printers' = <<pr>> \o Tail(printers)
             /\ gpc' = [gpc EXCEPT !.i = @ + 1]
             /\ UNCHANGED gerr
  /\ UNCHANGED <<config, files, dests>>
  /\ UNCHANGED notFile

\* a mapperFunc: the unit's name and the direction whose type pair it serves
\* (every unit here maps the same two structs, so two units serve one pair)
MapperFunc(name, typ) == [name |-> name, typ |-> typ]

\* the mapperFuncs appended while the text in buf was printed
RECURSIVE FuncsIn(_)
FuncsIn(buf) ==
  IF buf = <<>> THEN <<>>
  ELSE (IF Head(buf).part = "func"
        THEN << MapperFunc(Head(buf).unit, Head(buf).typ) >> ELSE <<>>)
       \o FuncsIn(Tail(buf))

\* mapperFuncs after the loop over the destinations: the printer of the
\* destination taken last is the first of the list
RECURSIVE MapperFuncsOf(_)
MapperFuncsOf(ps) ==
  IF ps = <<>> THEN <<>> ELSE MapperFuncsOf(Tail(ps)) \o FuncsIn(Head(ps).buf)

\* genMappers: for each mapperFunc in order, AddFactory of the unit's name
\* unless added already, then AddFactory of the type pair's name
RECURSIVE genMappers(_, _)
genMappers(mapperFuncs, n) ==
  IF n = 0 THEN << Piece("", "mappers", "", TRUE) >>
  ELSE genMappers(mapperFuncs, n - 1) \o
       (IF \E k \in 1..(n - 1) : mapperFuncs[k].name = mapperFuncs[n].name
        THEN <<>> ELSE << Piece(mapperFuncs[n].name, "AddFactory", "", TRUE) >>) \o
       << Piece(mapperFuncs[n].name, "AddFactory", mapperFuncs[n].typ, TRUE) >>

\* after the last destination: genMappers writes the mappers file, and
\* Generate returns nil
GenerateMappers ==
  /\ gpc.at = "dests"
  /\ \A d \in Destinations :
        dests[d] # <<>> => \E k \in 1..Len(printers) : printers[k].path = d
  /\ files' = [files EXCEPT ![MappersDestination] =
                 [exists |-> TRUE,
                  text |-> genMappers(MapperFuncsOf(printers),
                                      Len(MapperFuncsOf(printers)))]]
  /\ gpc' = [at |-> "closing", dest |-> "", i |-> 0]
  /\ UNCHANGED <<config, dests, printers, gerr>>
  /\ UNCHANGED notFile

\* printer.Close: the buffer is written to the end of the file; the file is
\* then rewritten by imports.Process unless the text does not parse
Close(pr, file) == [exists |-> TRUE, text |-> file.text \o pr.buf]

\* the deferred calls of Close, the last deferred first; then Generate is back
GenerateClose ==
  /\ gpc.at = "closing"
  /\ IF printers = <<>>
     THEN /\ gpc' = [at |-> "returned", dest |-> "", i |-> 0]
          /\ UNCHANGED <<files, printers>>
     ELSE /\ files' = [files EXCEPT ![Head(printers).path] = Close(Head(printers), @)]
          /\ printers' = Tail(printers)
          /\ UNCHANGED gpc
  /\ UNCHANGED <<config, dests, gerr>>
  /\ UNCHANGED notFile

NextGenerate ==
  GenerateStart \/ GenerateDest \/ GenerateUnit \/ GenerateMappers \/ GenerateClose

InitSpecGenerate ==
  InitRegistry /\ InitThreads /\ InitGenIdle /\ InitCastIdle /\ InitGenerate /\ InitRunIdle

SpecGenerate == InitSpecGenerate /\ [][NextGenerate]_vars

\* the text of mapping unit `name` that the file at path holds
TextOf(name, path) ==
  { k \in 1..Len(files[path].text) : files[path].text[k].unit = name }

\* C16: when the resolution of a field of a mapping unit has failed, Generate
\* returns the error and the unit's destination file holds no text of the
\* unit.
C16_NoTextOfFailedUnit ==
  gpc.at = "returned" =>
    \A k \in 1..Len(config) :
       (gerr # NoErr /\ Head(gerr).t = "field" /\ Head(gerr).unit = config[k].Name) =>
          TextOf(config[k].Name, config[k].Destination) = {}

(***************************************************************************)
(* C18: pairs of types that no mapping strategy fits.                      *)
(***************************************************************************)
IsCollection(t) == Kind(t) \in {"array", "slice", "map"}

IsTypeMismatch(err) == err # NoErr /\ Head(err).t = "type mismatch"

\* C18: whenever exactly one of the two types of a resolved field pair is a
\* collection (an array, a slice or a map), whichever side it is on,
\* generation fails with a type-mismatch error: it never ends having printed
\* a statement for such a pair without that error.
C18_CollectionMismatchFails ==
  genpc.state = "done" =>
    ((\E k \in 1..Len(genout) :
         IsCollection(genout[k].sourceType) # IsCollection(genout[k].destType))
       => IsTypeMismatch(generr))

(***************************************************************************)
(* The generated mapping function at run time.  The statements genMapFunc  *)
(* printed (genout) are executed on the objects source and dest point to.  *)
(* A slice is a record that tells nil from empty; a map is a list of its   *)
(* entries; a pointer is nil or holds the object it points to; a struct is *)
(* a function from its field names.                                        *)
(***************************************************************************)
MaxElems == 2

NilSliceValue == [nil |-> TRUE, elems |-> <<>>]
SliceOf(elems) == [nil |-> FALSE, elems |-> elems]
NilMapValue == [nil |-> TRUE, entries |-> <<>>]
MapOf(entries) == [nil |-> FALSE, entries |-> entries]
Entry(key, val) == [key |-> key, val |-> val]
PointerTo(v) == [nil |-> FALSE, at |-> v]

FieldNames(st) == {StructFields(st)[k].name : k \in 1..Len(StructFields(st))}

FieldType(st, name) ==
  LET fs == StructFields(st)
  IN fs[CHOOSE k \in 1..Len(fs) : fs[k].name = name].typ

\* the zero value of a type
RECURSIVE Zero(_)
Zero(t) ==
  IF IsPointer(t) THEN [nil |-> TRUE, at |-> Zero(PtrElem(t))]
  ELSE CASE Kind(t) = "struct" -> [n \in FieldNames(t) |-> Zero(FieldType(t, n))]
         [] Kind(t) = "slice" -> NilSliceValue
         [] Kind(t) = "map" -> NilMapValue
         [] Kind(t) = "array" -> [elems |-> <<Zero(Elem(t)), Zero(Elem(t))>>]
         [] t = "string" -> ""
         [] t = "bool" -> FALSE
         [] OTHER -> 0

\* what evaluating an expression or running a statement comes to: "ok" with
\* a value, "skip" (nothing is assigned), "err" (return err), "panic" (a nil
\* pointer is dereferenced), "invalid" (the statement does not compile)
Outcome(status, val, called) == [status |-> status, val |-> val, called |-> called]

\* the value at a path of field names under a value of type t
RECURSIVE ReadPath(_, _, _)
ReadPath(v, t, path) ==
  IF path = <<>> THEN Outcome("ok", v, <<>>)
  ELSE IF IsPointer(t)
  THEN IF v.nil THEN Outcome("panic", v, <<>>)
       ELSE ReadPath(v.at, PtrElem(t), path)
  ELSE ReadPath(v[Head(path)], FieldType(t, Head(path)), Tail(path))

\* the value of type t with val stored at the path
RECURSIVE WritePath(_, _, _, _)
WritePath(v, t, path, val) ==
  IF path = <<>> THEN Outcome("ok", val, <<>>)
  ELSE IF IsPointer(t)
  THEN LET w == WritePath(v.at, PtrElem(t), path, val)
       IN IF v.nil THEN Outcome("panic", v, <<>>)
          ELSE IF w.status # "ok" THEN Outcome(w.status, v, <<>>)
          ELSE Outcome("ok", [v EXCEPT !.at = w.val], <<>>)
  ELSE LET w == WritePath(v[Head(path)], FieldType(t, Head(path)), Tail(path), val)
       IN IF w.status # "ok" THEN Outcome(w.status, v, <<>>)
          ELSE Outcome("ok", [v EXCEPT ![Head(path)] = w.val], <<>>)

\* strconv.Itoa on the numbers that occur
Itoa(n) ==
  CASE n = 0 -> "0"
    [] n = 1 -> "1"
    [] n = 2 -> "2"
    [] n = 3 -> "3"
    [] OTHER -> "7"

\* the mapper functions that are registered in the scenarios, by the field
\* of the generated mapper they are bound to: int32 to string (it fails on
\* the numbers of mp.failOn), []int32 to []string, string to bool
FuncChoices ==
  { mappersName("int32", "string"), mappersName("[]int32", "[]string"),
    mappersName("string", "bool") }

\* a call m.<mf>(ctx, a, &d): the error returned and the value left in d
Convert(mp, mf, a, d) ==
  CASE mf = mappersName("int32", "string") ->
         IF a \in mp.failOn THEN [err |-> TRUE, val |-> d]
         ELSE [err |-> FALSE, val |-> Itoa(a)]
    [] mf = mappersName("[]int32", "[]string") ->
         [err |-> FALSE,
          val |-> SliceOf([i \in 1..Len(a.elems) |-> Itoa(a.elems[i])])]
    [] mf = mappersName("string", "bool") -> [err |-> FALSE, val |-> a = "true"]
    [] OTHER -> [err |-> FALSE, val |-> d]

\* the mapper functions called by the outcomes rs[1..n], in order
RECURSIVE CalledBy(_, _)
CalledBy(rs, n) == IF n = 0 THEN <<>> ELSE CalledBy(rs, n - 1) \o rs[n].called

\* the statement genAssignStmt printed, run on the source value v with d in
\* the destination: the mapper function when its field is bound, else the
\* direct assignment.  A mapper function is given a pointer to the
\* destination and writes what it converted through it; r is what the
\* function returns for the argument
CallFunc(stmt, v, d, viaPointer, toPointer, r) ==
  IF viaPointer /\ v.nil THEN Outcome("panic", d, <<>>)
  ELSE IF stmt.destArg = "tmp" \/ (toPointer /\ d.nil)
  THEN Outcome("panic", d, <<stmt.mf>>)
  ELSE IF r.err THEN Outcome("err", d, <<stmt.mf>>)
  ELSE Outcome("ok", IF toPointer THEN PointerTo(r.val) ELSE r.val, <<stmt.mf>>)

ExecAssign(mp, stmt, v, d) ==
  IF stmt.mf # NoFunc /\ stmt.mf \in mp.funcs
  THEN CallFunc(stmt, v, d,
                stmt.arg = "deref" \/ (stmt.arg = "value" /\ IsPointer(stmt.sourceType)),
                IsPointer(stmt.destType),
                Convert(mp, stmt.mf,
                        IF stmt.arg = "deref" \/ (stmt.arg = "value" /\ IsPointer(stmt.sourceType))
                        THEN v.at ELSE v,
                        IF IsPointer(stmt.destType) THEN d.at ELSE d))
  ELSE CASE stmt.direct \in {"copy", "cast"} -> Outcome("ok", v, <<>>)
         [] stmt.direct = "deref" ->
              IF v.nil THEN Outcome("panic", d, <<>>) ELSE Outcome("ok", v.at, <<>>)
         [] stmt.direct \in {"addr", "copyaddr"} -> Outcome("ok", PointerTo(v), <<>>)
         [] OTHER -> Outcome("skip", d, <<>>)

\* the elements a loop ranges over: the entries of a map are taken in the
\* order of the list
Elems(stmt, v) ==
  IF stmt.op = "map" THEN [i \in 1..Len(v.entries) |-> v.entries[i].val] ELSE v.elems

\* the nil branch of a slice or map statement
OnNil(stmt, d) ==
  CASE stmt.onNil = NilCollectionAsNil -> Outcome("ok", Zero(stmt.destType), <<>>)
    [] stmt.onNil = NilCollectionAsEmpty ->
         Outcome("ok", IF stmt.op = "slice" THEN SliceOf(<<>>) ELSE MapOf(<<>>), <<>>)
    [] OTHER -> Outcome("skip", d, <<>>)

\* the collection built from the values tmp the loop stored: a slice that
\* nothing was appended to is nil
Built(stmt, v, tmp) ==
  CASE stmt.op = "slice" -> IF Len(tmp) = 0 THEN NilSliceValue ELSE SliceOf(tmp)
    [] stmt.op = "map" ->
         MapOf([i \in 1..Len(tmp) |-> Entry(v.entries[i].key, tmp[i])])
    [] OTHER -> [elems |-> tmp]

\* the loop over a collection, given the outcomes rs of the statements that
\* map each element into a new tmp (zero at first): it returns at the first
\* element that fails, and at the end assigns the collection built
Loop(mp, stmt, v, d, zero, rs) ==
  IF \E i \in 1..Len(rs) : rs[i].status \notin {"ok", "skip"}
  THEN Outcome(rs[FirstIndex({i \in 1..Len(rs) : rs[i].status \notin {"ok", "skip"}})].status,
               d,
               CalledBy(rs, FirstIndex({i \in 1..Len(rs) : rs[i].status \notin {"ok", "skip"}})))
  ELSE [ExecAssign(mp, stmt.tail[1],
                   Built(stmt, v, [i \in 1..Len(rs) |->
                                     IF rs[i].status = "ok" THEN rs[i].val ELSE zero]),
                   d)
        EXCEPT !.called = CalledBy(rs, Len(rs))]

\* a printed statement run on the source value v with d in the destination
RECURSIVE Exec(_, _, _, _)
Exec(mp, stmt, v, d) ==
  IF stmt.op = "assign" THEN ExecAssign(mp, stmt, v, d)
  ELSE IF stmt.op \in {"slice", "map"} /\ v.nil THEN OnNil(stmt, d)
  ELSE IF /\ stmt.elmAssign # <<>>
          /\ stmt.elmAssign[1].sourceType # stmt.elmAssign[1].destType
  THEN \* tmp is declared with the destination's element type, and the
       \* statement storing it is printed for the source's element type
       Outcome("invalid", d, <<>>)
  ELSE Loop(mp, stmt, v, d, Zero(Elem(stmt.destType)),
            [i \in 1..Len(Elems(stmt, v)) |->
               IF stmt.body = <<>> THEN Outcome("skip", d, <<>>)
               ELSE Exec(mp, stmt.body[1], Elems(stmt, v)[i], Zero(Elem(stmt.destType)))])

(***************************************************************************)
(* SpecRun: a mapping is generated for one direction and the function      *)
(* generated is called on a source and a destination object; for operands  *)
(* of the same fields, the function of the other direction is then called  *)
(* on what the first one produced.                                         *)
(***************************************************************************)
NoteUnit == [A |-> "Note", B |-> "NoteCopy"]
RawUnit == [A |-> "Raw", B |-> "Cooked"]

NilCollections == {NilCollectionAsNil, NilCollectionAsEmpty}

\* the mappings of the scenarios: explicit pairs for Todo and for Raw, the
\* fields of the same name for Note
RunMapping(explicitOnly, fields, nilMap, nilSlice) ==
  [ExplicitOnly |-> explicitOnly, IgnoreCase |-> FALSE, AllowUnmapped |-> FALSE,
   Fields |-> fields, Ignores |-> <<>>, NilMap |-> nilMap, NilSlice |-> nilSlice]

\* Mapping.Bidirectional: the mapping of Note and NoteCopy has both directions
Bidirectional == structs = NoteUnit

TodoFields ==
  { << FieldMapping(<<"Done">>, <<"Finished">>), FieldMapping(<<"UserID">>, <<"User", "ID">>) >>,
    << FieldMapping(<<"Title">>, <<"User", "Home", "City">>) >>,
    << FieldMapping(<<"UserID">>, <<"User", "ID">>),
       FieldMapping(<<"Title">>, <<"User", "Home", "City">>) >> }

RawFields ==
  { << FieldMapping(<<"IntList">>, <<"StringList">>) >>,
    << FieldMapping(<<"Inner", "Labels">>, <<"Labels">>) >>,
    << FieldMapping(<<"Count">>, <<"Count">>), FieldMapping(<<"Label">>, <<"Flag">>),
       FieldMapping(<<"IntList">>, <<"StringList">>) >> }

\* the sequences over S of up to n elements
SeqsUpTo(S, n) == UNION { [1..k -> S] : k \in 0..n }

\* the slices over S: nil, empty, and up to MaxElems elements
Slices(S) == {NilSliceValue} \cup {SliceOf(e) : e \in SeqsUpTo(S, MaxElems)}

\* map[string][]string values: nil, empty, a nil slice or a slice under a key
AttributeMaps ==
  { NilMapValue, MapOf(<<>>), MapOf(<<Entry("k", NilSliceValue)>>),
    MapOf(<<Entry("k", SliceOf(<<"x">>))>>) }

TodoValue == [ID |-> "1", Title |-> "t", Done |-> TRUE, UserID |-> "42", secret |-> "s"]

\* a TodoEntity whose User is nil, whose User has no Home, or with both set
TodoEntities ==
  { Zero("TodoEntity"),
    [Zero("TodoEntity") EXCEPT
       !.User = PointerTo([Zero("User") EXCEPT !.Name = "n"])],
    [Zero("TodoEntity") EXCEPT
       !.User = PointerTo([Zero("User") EXCEPT
                             !.Name = "n", !.Home = PointerTo([City |-> "c"])])] }

Notes ==
  { [Title |-> "t", Tags |-> tags, Attributes |-> attrs] :
      tags \in Slices({"a", "b"}), attrs \in AttributeMaps }

\* a NoteCopy as new, or one that was filled before
NoteCopies ==
  { Zero("NoteCopy"),
    [Title |-> "old", Tags |-> SliceOf(<<"old">>),
     Attributes |-> MapOf(<<Entry("old", SliceOf(<<"old">>))>>)] }

Raws ==
  { [IntList |-> ints, Count |-> 7, Label |-> "true", Inner |-> [Labels |-> labels]] :
      ints \in Slices({1, 3}), labels \in {NilSliceValue, SliceOf(<<"a">>)} }

Cookeds ==
  { Zero("Cooked"),
    [Zero("Cooked") EXCEPT !.StringList = SliceOf(<<"old">>),
                           !.Labels = SliceOf(<<"old">>)] }

\* the sets of mapper functions registered: none, the one of the elements,
\* the one of the lists, the two of the basic types, all
FuncSets ==
  { {}, {mappersName("int32", "string")}, {mappersName("[]int32", "[]string")},
    {mappersName("int32", "string"), mappersName("string", "bool")}, FuncChoices }

MapperChoices ==
  [helper : {"none", "ok", "fail"}, funcs : FuncSets, failOn : {{}, {3}}]

InitRun ==
  /\ operand \in OperandTypes
  /\ \/ /\ operand = "B"
        /\ structs = TodoUnit
        /\ \E f \in TodoFields :
             mapping = RunMapping(TRUE, f, NilCollectionAsNil, NilCollectionAsNil)
        /\ sourceObj \in TodoEntities
        /\ destObj = TodoValue
        /\ mapper \in {mp \in MapperChoices : mp.funcs = {} /\ mp.failOn = {}}
     \/ /\ operand = "A"
        /\ structs = TodoUnit
        /\ \E f \in TodoFields :
             mapping = RunMapping(TRUE, f, NilCollectionAsNil, NilCollectionAsNil)
        /\ sourceObj = TodoValue
        /\ destObj \in TodoEntities
        /\ mapper \in {mp \in MapperChoices : mp.funcs = {} /\ mp.failOn = {}}
     \/ /\ operand = "A"
        /\ structs = NoteUnit
        /\ \E nm \in NilCollections, ns \in NilCollections :
             mapping = RunMapping(FALSE, <<>>, nm, ns)
        /\ sourceObj \in Notes
        /\ destObj \in NoteCopies
        /\ mapper \in {mp \in MapperChoices : mp.funcs = {} /\ mp.failOn = {}}
     \/ /\ operand = "A"
        /\ structs = RawUnit
        /\ \E f \in RawFields, ns \in NilCollections :
             mapping = RunMapping(TRUE, f, NilCollectionAsNil, ns)
        /\ sourceObj \in Raws
        /\ destObj \in Cookeds
        /\ mapper \in {mp \in MapperChoices :
                          mp.failOn = {} \/ mappersName("int32", "string") \in mp.funcs}
  /\ genpc = [state |-> "ready", stack |-> <<>>]
  /\ genout = <<>>
  /\ generr = NoErr
  /\ rpc = [state |-> "idle", i |-> 0]
  /\ rerr = NoErr
  /\ events = <<>>
  /\ first = <<>>
  /\ given = <<>>

\* the errors a generated mapping function returns: the one of a mapper
\* function, the one of the helper
FuncError(mf) == <<[t |-> "mapper function", mf |-> mf]>>
HelperError == <<[t |-> "helper"]>>

Event(e, k, called) == [e |-> e, k |-> k, called |-> called]

\* a statement returned err and the function went on to the next statement
AfterErrGoesOn(i) == [state |-> "run", i |-> i + 1]

\* `return err`: the function is left at statement i
AfterErr(i) == [state |-> "returned", i |-> i]

\* the generated function is called with the source and the dest object
RunCall ==
  /\ genpc.state = "done"
  /\ generr = NoErr
  /\ rpc.state = "idle"
  /\ rpc' = [state |-> "run", i |-> 1]
  /\ given' = destObj
  /\ UNCHANGED <<mapper, sourceObj, destObj, rerr, events, first>>
  /\ UNCHANGED <<regVars, thrVars, genVars, castVars, fileVars>>

\* the effect of statement i, given the value sv read from the source, the
\* value dv the destination holds, and the outcome r of the statement.  A
\* nil guard `if dest.X == nil { dest.X = &T{} }` compiles for a pointer
\* only; the methods of the operands have no bodies here, so a statement
\* calling one stops the run
StmtStep(i, stmt, destType, sv, dv, r) ==
  LET stop(state) ==
        /\ rpc' = [state |-> state, i |-> i]
        /\ UNCHANGED <<destObj, rerr, events>>
      goOn(w, called) ==
        /\ rpc' = [state |-> "run", i |-> i + 1]
        /\ destObj' = WritePath(destObj, destType, Tail(stmt.dest.path), w).val
        /\ events' = Append(events, Event("stmt", i, called))
        /\ UNCHANGED rerr
  IN IF stmt.op = "init"
     THEN IF ~IsPointer(stmt.destType) THEN stop("invalid")
          ELSE IF dv.status # "ok" THEN stop("panic")
          ELSE IF dv.val.nil THEN goOn(PointerTo(Zero(PtrElem(stmt.destType))), <<>>)
          ELSE goOn(dv.val, <<>>)
     ELSE IF stmt.source.call \/ stmt.dest.call THEN stop("opaque")
     ELSE IF sv.status # "ok" \/ dv.status # "ok" THEN stop("panic")
     ELSE IF r.status = "ok" THEN goOn(r.val, r.called)
     ELSE IF r.status = "skip" THEN goOn(dv.val, r.called)
     ELSE IF r.status = "err"
     THEN /\ rpc' = AfterErr(i)
          /\ rerr' = FuncError(r.called[Len(r.called)])
          /\ events' = Append(events, Event("failed", i, r.called))
          /\ UNCHANGED destObj
     ELSE stop(r.status)

\* the source value and the destination value of a statement
SourceOf(stmt) == ReadPath(sourceObj, OperandStruct(operand), Tail(stmt.source.path))
DestOf(stmt) == ReadPath(destObj, OperandStruct(Inverted(operand)), Tail(stmt.dest.path))

\* the next printed statement runs
RunStmt ==
  /\ rpc.state = "run"
  /\ rpc.i <= Len(genout)
  /\ StmtStep(rpc.i, genout[rpc.i], OperandStruct(Inverted(operand)),
              SourceOf(genout[rpc.i]), DestOf(genout[rpc.i]),
              Exec(mapper, genout[rpc.i], SourceOf(genout[rpc.i]).val,
                   DestOf(genout[rpc.i]).val))
  /\ UNCHANGED <<mapper, sourceObj, first, given>>
  /\ UNCHANGED <<regVars, thrVars, genVars, castVars, fileVars>>

\* after the statements: `if m.helper != nil { if err := m.helper.XToY(ctx,
\* source, dest); err != nil { return err } }` and `return nil`
RunHelper ==
  /\ rpc.state = "run"
  /\ rpc.i > Len(genout)
  /\ rpc' = [state |-> "returned", i |-> rpc.i]
  /\ IF mapper.helper = "none" THEN UNCHANGED <<rerr, events>>
     ELSE /\ events' = Append(events, Event("helper", 0, <<>>))
          /\ rerr' = IF mapper.helper = "fail" THEN HelperError ELSE NoErr
  /\ UNCHANGED <<mapper, sourceObj, destObj, first, given>>
  /\ UNCHANGED <<regVars, thrVars, genVars, castVars, fileVars>>

\* the function of the other direction is generated and called on what the
\* first one produced, with a new object as its dest
RunBack ==
  /\ rpc.state = "returned"
  /\ rerr = NoErr
  /\ operand = "A"
  /\ Bidirectional
  /\ first = <<>>
  /\ first' = <<[source |-> sourceObj, dest |-> destObj]>>
  /\ operand' = "B"
  /\ sourceObj' = destObj
  /\ destObj' = Zero(OperandStruct("A"))
  /\ genpc' = [state |-> "ready", stack |-> <<>>]
  /\ genout' = <<>>
  /\ rpc' = [state |-> "idle", i |-> 0]
  /\ events' = <<>>
  /\ given' = <<>>
  /\ UNCHANGED <<structs, mapping, generr, mapper, rerr>>
  /\ UNCHANGED <<regVars, thrVars, castVars, fileVars>>

NextRun == NextGen \/ RunCall \/ RunStmt \/ RunHelper \/ RunBack

InitSpecRun ==
  InitRegistry /\ InitThreads /\ InitCastIdle /\ InitGenerateIdle /\ InitRun

SpecRun == InitSpecRun /\ [][NextRun]_vars

\* the generated function ran all its statements and returned
RanAll == rpc.state = "returned" /\ rpc.i > Len(genout)

\* the proper prefixes of a destination path of several segments
Intermediates(path) == {SubSeq(path, 1, i) : i \in 1..(Len(path) - 1)}

\* the paths of TodoEntity that no pair of the scenarios assigns
Untouched == {<<"Id">>, <<"Title">>, <<"Tags">>, <<"User", "Name">>}

\* C15: for an explicit pair whose destination path has several segments,
\* the generated function initializes every nil intermediate pointer on the
\* destination, outermost first and before the leaf is assigned, so it never
\* dereferences nil; afterwards the leaf holds the source value, and what a
\* non-nil intermediate held besides is as it was given
C15_NestedDestInitialised ==
  (structs = TodoUnit /\ operand = "A") =>
    /\ rpc.state \notin {"panic", "invalid"}
    /\ \A k \in 1..Len(genout) :
         genout[k].op = "assign" =>
           \A p \in Intermediates(Tail(genout[k].dest.path)) :
             \E j \in 1..(k - 1) :
               /\ genout[j].op = "init"
               /\ genout[j].dest.path = <<"dest">> \o p
               /\ \A i \in 1..(k - 1) :
                    (genout[i].op = "init" /\ Len(genout[i].dest.path) < Len(p) + 1
                     /\ genout[i].dest.path = SubSeq(<<"dest">> \o p, 1, Len(genout[i].dest.path)))
                      => i < j
    /\ RanAll =>
         /\ \A k \in 1..Len(mapping.Fields) :
              LET leaf == ReadPath(destObj, "TodoEntity", mapping.Fields[k].B)
              IN /\ leaf.status = "ok"
                 /\ leaf.val = ReadPath(sourceObj, "Todo", mapping.Fields[k].A).val
         /\ \A q \in Untouched :
              ReadPath(given, "TodoEntity", q).status = "ok" =>
                ReadPath(destObj, "TodoEntity", q) = ReadPath(given, "TodoEntity", q)

\* Done is paired to Finished and UserID to User.ID, the dest given has no
\* User, and {Done: true, UserID: "42"} came to {Finished: true, User: {ID: "42"}}
C15_Witness ==
  /\ structs = TodoUnit /\ operand = "A" /\ RanAll
  /\ Len(mapping.Fields) = 2
  /\ mapping.Fields[1] = FieldMapping(<<"Done">>, <<"Finished">>)
  /\ given = Zero("TodoEntity")
  /\ sourceObj.Done /\ sourceObj.UserID = "42"
  /\ destObj.Finished
  /\ destObj.User = PointerTo([Zero("User") EXCEPT !.ID = "42"])

\* the positions of the events of a kind
EventsOf(e) == {k \in 1..Len(events) : events[k].e = e}

\* C13: in a call of a generated mapping function the registered helper is
\* invoked at most once, only after every printed statement has run and
\* none has failed; once the function has returned, a failed statement
\* means the helper was not invoked and its error is returned, otherwise
\* the helper, if one is registered, was invoked once and its failure is
\* what the function returned, and with no helper the function returned nil
C13_HelperOnceAfterFields ==
  /\ Cardinality(EventsOf("helper")) <= 1
  /\ \A h \in EventsOf("helper") :
       /\ mapper.helper # "none"
       /\ EventsOf("failed") = {}
       /\ h = Len(events)
       /\ \A j \in 1..Len(genout) :
            \E k \in 1..(h - 1) : events[k].e = "stmt" /\ events[k].k = j
  /\ rpc.state = "returned" =>
       IF EventsOf("failed") # {}
       THEN /\ EventsOf("helper") = {}
            /\ \E k \in EventsOf("failed") :
                 rerr = FuncError(events[k].called[Len(events[k].called)])
       ELSE IF mapper.helper = "none"
       THEN EventsOf("helper") = {} /\ rerr = NoErr
       ELSE /\ Cardinality(EventsOf("helper")) = 1
            /\ rerr = IF mapper.helper = "fail" THEN HelperError ELSE NoErr

\* a function of several statements ran them all, then its helper, which
\* failed, and returned the helper's error
C13_Witness ==
  /\ rpc.state = "returned"
  /\ mapper.helper = "fail"
  /\ Len(genout) >= 2
  /\ Len(events) = Len(genout) + 1
  /\ events[Len(events)].e = "helper"
  /\ rerr = HelperError

\* the mapping pairs the fields IntList ([]int32) and StringList ([]string)
PairsLists ==
  /\ structs = RawUnit
  /\ \E k \in 1..Len(mapping.Fields) :
       mapping.Fields[k] = FieldMapping(<<"IntList">>, <<"StringList">>)

\* C14: for the pair IntList []int32 and StringList []string with the
\* mapper function int32 to string bound, a call that runs to its end on a
\* source list that is not nil leaves in StringList a list of the length of
\* IntList whose i-th element is the conversion of the i-th element of IntList
C14_ElementwiseInOrder ==
  (/\ PairsLists /\ operand = "A" /\ RanAll
   /\ mappersName("int32", "string") \in mapper.funcs
   /\ ~sourceObj.IntList.nil) =>
    /\ Len(destObj.StringList.elems) = Len(sourceObj.IntList.elems)
    /\ \A i \in 1..Len(sourceObj.IntList.elems) :
         destObj.StringList.elems[i] = Itoa(sourceObj.IntList.elems[i])

\* [1, 3] was mapped to ["1", "3"] by two calls of the mapper function
C14_Witness ==
  /\ PairsLists /\ operand = "A" /\ RanAll
  /\ mappersName("int32", "string") \in mapper.funcs
  /\ sourceObj.IntList = SliceOf(<<1, 3>>)
  /\ destObj.StringList = SliceOf(<<"1", "3">>)
  /\ \E k \in EventsOf("stmt") :
       events[k].called = <<mappersName("int32", "string"), mappersName("int32", "string")>>

\* C17: a statement that maps a field whose pair of types has a mapper
\* function bound calls that function and nothing else, whatever the kinds
\* of the two types are
C17_CustomConversionFirst ==
  \A k \in EventsOf("stmt") \cup EventsOf("failed") :
    LET stmt == genout[events[k].k]
        mf == mappersName(stmt.sourceType, stmt.destType)
    IN (stmt.op # "init" /\ mf \in mapper.funcs) => events[k].called = <<mf>>

\* the collection under a path of an object of the struct type t
CollectionAt(obj, t, path) == ReadPath(obj, t, Tail(path)).val

\* what the policy makes of a nil collection: d is nil under "nil", and is
\* not nil and has no element under "empty"
AsPolicy(policy, d, n) ==
  /\ policy = NilCollectionAsNil => d.nil
  /\ policy = NilCollectionAsEmpty => ~d.nil /\ n = 0

\* C12: after a call that ran to its end, the destination of a slice or
\* map field whose source is nil is as the mapping's policy for the kind
\* says, and so is the slice under a key of a map whose source slice is nil
C12_NilCollectionPolicy ==
  RanAll =>
    \A k \in 1..Len(genout) :
      LET stmt == genout[k]
          s == CollectionAt(sourceObj, OperandStruct(operand), stmt.source.path)
          d == CollectionAt(destObj, OperandStruct(Inverted(operand)), stmt.dest.path)
      IN /\ stmt.op = "slice" /\ s.nil => AsPolicy(mapping.NilSlice, d, Len(d.elems))
         /\ stmt.op = "map" /\ s.nil => AsPolicy(mapping.NilMap, d, Len(d.entries))
         /\ stmt.op = "map" /\ ~s.nil =>
              /\ Len(d.entries) = Len(s.entries)
              /\ \A i \in 1..Len(s.entries) :
                   s.entries[i].val.nil =>
                     AsPolicy(mapping.NilSlice, d.entries[i].val,
                              Len(d.entries[i].val.elems))

\* C20: for Note and NoteCopy, which have the same fields, mapped by name
\* in both directions, the Note that the function of the direction back
\* fills from the NoteCopy equals the Note first mapped from
C20_RoundTrip ==
  (structs = NoteUnit /\ operand = "B" /\ first # <<>> /\ RanAll) =>
    destObj = first[1].source

(***************************************************************************)
(* C22: ExplicitOnly.                                                      *)
(***************************************************************************)
\* the nil guard of an intermediate segment of a destination path
IsGuard(stmt) == stmt.op = "init"

\* a printed statement is the statement of the explicit correspondence fm:
\* it reads fm's source path and writes fm's destination path (the whole
\* local operand for the wildcard)
StmtOfPair(stmt, fm) ==
  LET s == Value(fm, operand)
      d == Value(fm, Inverted(operand))
  IN /\ ~IsGuard(stmt)
     /\ s # NoName /\ d # NoName
     /\ Head(stmt.source.path) = "source"
     /\ IF s = Wildcard THEN Tail(stmt.source.path) = <<>>
        ELSE SameName(Tail(stmt.source.path), s, mapping.IgnoreCase)
     /\ Head(stmt.dest.path) = "dest"
     /\ IF d = Wildcard THEN Tail(stmt.dest.path) = <<>>
        ELSE SameName(Tail(stmt.dest.path), d, mapping.IgnoreCase)

\* C22: with ExplicitOnly = true, whatever AllowUnmapped is, generation
\* raises no unmapped-field error, every assignment printed is the statement
\* of an explicit correspondence of the mapping, no statement reads a source
\* field that has no explicit correspondence, and a mapping without explicit
\* correspondences generates an empty body without error.
C22_ExplicitOnlySkips ==
  (genpc.state = "done" /\ mapping.ExplicitOnly) =>
    /\ ~IsUnmappedError(generr)
    /\ \A k \in 1..Len(genout) :
          \/ IsGuard(genout[k])
          \/ \E j \in 1..Len(mapping.Fields) : StmtOfPair(genout[k], mapping.Fields[j])
    /\ \A i \in 1..Len(SourceFields) :
          (~\E j \in 1..Len(mapping.Fields) :
               LET s == Value(mapping.Fields[j], operand)
               IN s # NoName /\ Head(s) = SourceFields[i].name) =>
            \A k \in 1..Len(genout) : ~ReadsField(genout[k], SourceFields[i].name)
    /\ mapping.Fields = <<>> => (generr = NoErr /\ genout = <<>>)

\* an explicit-only generation with AllowUnmapped = false has succeeded and
\* printed the statement of a pair, although a source field has neither an
\* explicit correspondence nor a same-named destination field
C22_Witness ==
  /\ genpc.state = "done"
  /\ mapping.ExplicitOnly /\ ~mapping.AllowUnmapped /\ ~WholeOperand
  /\ UnmappedAt # {}
  /\ generr = NoErr
  /\ \E k \in 1..Len(genout) : ~IsGuard(genout[k])

(***************************************************************************)
(* C23: ignored fields.                                                    *)
(***************************************************************************)
\* a printed statement that belongs to no explicit correspondence
Implicit(stmt) ==
  /\ ~IsGuard(stmt)
  /\ ~\E j \in 1..Len(mapping.Fields) : StmtOfPair(stmt, mapping.Fields[j])

\* the names the ignore entries list for the operand of that side
IgnoredOn(typ) ==
  { Head(Value(mapping.Ignores[k], typ)) :
      k \in {j \in 1..Len(mapping.Ignores) : Value(mapping.Ignores[j], typ) # NoName} }

\* the part of C23 about the source side: an ignored field of the source
\* operand is read by no implicit statement and raises no unmapped-field error
IgnoredSourceSkipped ==
  \A name \in IgnoredOn(operand) :
     /\ \A k \in 1..Len(genout) : ~(Implicit(genout[k]) /\ ReadsField(genout[k], name))
     /\ generr # UnmappedField(OperandStruct(operand), name)

\* C23: a field listed in an ignore entry for a side is left out of the
\* implicit mapping in both directions and raises no unmapped-field error:
\* no implicit statement reads it when its side is the source, and no
\* implicit statement assigns it when its side is the destination.
C23_IgnoredBothDirections ==
  genpc.state = "done" =>
    /\ IgnoredSourceSkipped
    /\ \A name \in IgnoredOn(Inverted(operand)) :
          \A k \in 1..Len(genout) :
             ~(Implicit(genout[k]) /\ AssignsField(genout[k], name))

(***************************************************************************)
(* C24: IgnoreCase.                                                        *)
(***************************************************************************)
\* the destination property a statement assigns: the field, or the property
\* of the setter method Set<name>
Assigned(stmt) ==
  IF stmt.dest.call THEN Tail(Tail(stmt.dest.path)) ELSE Tail(stmt.dest.path)

\* the explicit correspondences (by position) whose source path is the one
\* segment that names the source field, compared as `ignoreCase` says
PairsOf(name, ignoreCase) ==
  { j \in 1..Len(mapping.Fields) :
      LET s == Value(mapping.Fields[j], operand)
      IN Len(s) = 1 /\ SameName(<<name>>, s, ignoreCase) }

\* the source field of that name is mapped as the mapping lays down when
\* explicit correspondences select fields as `ignoreCase` says: by the first
\* correspondence that selects it, otherwise by name
MappedAsLaidDown(name, ignoreCase) ==
  LET J == PairsOf(name, ignoreCase)
  IN IF J # {}
     THEN \E k \in 1..Len(genout) :
             StmtOfPair(genout[k], mapping.Fields[FirstIndex(J)])
     ELSE (~mapping.ExplicitOnly /\ Writable(DestStruct, name)) =>
             \E k \in 1..Len(genout) :
                /\ ReadsField(genout[k], name)
                /\ SameName(Assigned(genout[k]), <<name>>, mapping.IgnoreCase)

\* the fields of the source operand the loop maps
MappedFields ==
  { SourceFields[i].name : i \in { j \in 1..Len(SourceFields) :
       /\ Readable(OperandStruct(operand), SourceFields[j].name)
       /\ ~Ignored(SourceFields[j].name) } }

\* with IgnoreCase = false every implicit statement joins two fields of
\* exactly the same name
ImplicitExact ==
  \A k \in 1..Len(genout) :
     (Implicit(genout[k]) /\ ~genout[k].source.call) =>
        Tail(genout[k].source.path) = Assigned(genout[k])

\* C24: with IgnoreCase = true an explicit correspondence whose source path
\* differs from the field's declared name only in letter case selects that
\* field, and its paired path is the one assigned; a field without
\* correspondence is assigned to the destination field of the same name up
\* to letter case.  With IgnoreCase = false both matches are exact.
C24_IgnoreCaseBothMatches ==
  (genpc.state = "done" /\ ~WholeOperand /\ generr = NoErr) =>
    /\ \A name \in MappedFields : MappedAsLaidDown(name, mapping.IgnoreCase)
    /\ ~mapping.IgnoreCase => ImplicitExact

\* what holds instead: explicit correspondences select source fields by
\* exact comparison whatever IgnoreCase is
C24_ExplicitExact ==
  (genpc.state = "done" /\ ~WholeOperand /\ generr = NoErr) =>
    /\ \A name \in MappedFields : MappedAsLaidDown(name, FALSE)
    /\ ~mapping.IgnoreCase => ImplicitExact

(***************************************************************************)
(* C30: several correspondences of one source field.                       *)
(***************************************************************************)
\* the explicit correspondences (by position) whose source path is a field
\* of the source operand that the loop maps, and whose destination path is a
\* writable field of the destination operand
Mappable ==
  { j \in 1..Len(mapping.Fields) :
      LET s == Value(mapping.Fields[j], operand)
          d == Value(mapping.Fields[j], Inverted(operand))
      IN /\ Len(s) = 1 /\ Head(s) \in MappedFields
         /\ Len(d) = 1 /\ d # Wildcard
         /\ Writable(DestStruct, Head(d)) }

\* C30: in a direction generated without error, every explicit correspondence
\* whose source path names a readable source field and whose destination path
\* names a writable destination field has its assignment printed, also when
\* several correspondences have the same source path.
C30_EveryCorrespondenceAssigns ==
  (genpc.state = "done" /\ ~WholeOperand /\ generr = NoErr) =>
    \A j \in Mappable :
       \E k \in 1..Len(genout) : StmtOfPair(genout[k], mapping.Fields[j])

\* what holds instead: of the correspondences of one source field the first
\* of the list has its assignment printed
C30_FirstCorrespondenceAssigns ==
  (genpc.state = "done" /\ ~WholeOperand /\ generr = NoErr) =>
    \A j \in Mappable :
       (\A i \in 1..(j - 1) :
           Value(mapping.Fields[i], operand) # Value(mapping.Fields[j], operand)) =>
         \E k \in 1..Len(genout) : StmtOfPair(genout[k], mapping.Fields[j])

(***************************************************************************)
(* C21: a nil record in the source.                                        *)
(***************************************************************************)
\* the mapping pairs Todo.UserID with TodoEntity.User.ID
PairsUserID ==
  \E k \in 1..Len(mapping.Fields) :
     mapping.Fields[k] = FieldMapping(<<"UserID">>, <<"User", "ID">>)

\* C21: in the direction TodoEntity -> Todo the generated function never
\* faults on a nil record of the source; with User.ID paired to UserID, a
\* call that has run every statement has left dest.UserID as it was given
\* when source.User is nil, and has assigned source.User.ID to it otherwise.
C21_NilSourceSkipped ==
  (structs = TodoUnit /\ operand = "B") =>
    /\ rpc.state # "panic"
    /\ (RanAll /\ PairsUserID) =>
          destObj.UserID = IF sourceObj.User.nil THEN given.UserID
                           ELSE sourceObj.User.at.ID

\* the part of C21 that holds: when every record on the source path is
\* present the field is mapped
C21_PresentSourceMapped ==
  (structs = TodoUnit /\ operand = "B" /\ RanAll /\ PairsUserID) =>
    /\ ~sourceObj.User.nil
    /\ destObj.UserID = sourceObj.User.at.ID

(***************************************************************************)
(* C25: the order of the registrations in the mappers file.                *)
(***************************************************************************)
\* the mapperFuncs of the mappings ms, in their order
RECURSIVE FuncsOfMappings(_)
FuncsOfMappings(ms) ==
  IF ms = <<>> THEN <<>>
  ELSE << MapperFunc(Head(ms).Name, "A") >> \o
       (IF Head(ms).Bidirectional THEN << MapperFunc(Head(ms).Name, "B") >> ELSE <<>>) \o
       FuncsOfMappings(Tail(ms))

\* the destinations in the order in which the configuration first names them
RECURSIVE DestinationOrder(_)
DestinationOrder(n) ==
  IF n = 0 THEN <<>>
  ELSE DestinationOrder(n - 1) \o
       (IF config[n].Destination \in DestinationsOf(n - 1) THEN <<>>
        ELSE << config[n].Destination >>)

\* the mapperFuncs when the destinations are taken in the order ds
RECURSIVE FuncsInOrder(_)
FuncsInOrder(ds) ==
  IF ds = <<>> THEN <<>>
  ELSE FuncsOfMappings(dests[Head(ds)]) \o FuncsInOrder(Tail(ds))

\* the unit whose registration of the type pair of direction typ is the last
\* in the text, the one a registry built from the text serves the pair with
Winner(text, typ) ==
  LET at == {k \in 1..Len(text) : text[k].part = "AddFactory" /\ text[k].typ = typ}
  IN IF at = {} THEN "" ELSE text[CHOOSE k \in at : \A j \in at : j <= k].unit

\* C25: generation is deterministic: after a run without error the mappers
\* file is the one text the configuration determines, with the units and
\* their type-pair functions registered by destination in the order in which
\* the configuration names them, so that the unit that serves a type pair is
\* the same in every run.
C25_GenerationDeterministic ==
  (gpc.at = "returned" /\ gerr = NoErr) =>
    LET text == files[MappersDestination].text
        fixed == FuncsInOrder(DestinationOrder(Len(config)))
    IN /\ text = genMappers(fixed, Len(fixed))
       /\ \A typ \in OperandTypes :
             Winner(text, typ) = Winner(genMappers(fixed, Len(fixed)), typ)

\* what holds of every run: the mappers file registers the units and the
\* functions of the configuration, each once, in some order
C25_SameRegistrations ==
  (gpc.at = "returned" /\ gerr = NoErr) =>
    LET text == files[MappersDestination].text
        fixed == FuncsInOrder(DestinationOrder(Len(config)))
        canon == genMappers(fixed, Len(fixed))
    IN /\ Len(text) = Len(canon)
       /\ {text[k] : k \in 1..Len(text)} = {canon[k] : k \in 1..Len(canon)}

(***************************************************************************)
(* C28: registering an id again.                                           *)
(***************************************************************************)
\* what base.Get(id) would return now
GetNow(id) == Get(deps["base"], facs["base"], calls, id)

\* C28, the half about Add: after Add(id, x), whatever was registered under
\* id before, Get(id) returns x and invokes no factory.
C28_AddReplaces ==
  (last.op = "add" /\ ~crashed) =>
    /\ ~GetNow(last.id).invoked
    /\ GetNow(last.id).err = NoErr
    /\ GetNow(last.id).obj = Object(DeclaredType(last.id), <<"add", nregs>>)

\* C28: registering an id again replaces the earlier registration whatever
\* the kinds: after AddFactory(id, f) Get(id) invokes f and returns what f
\* returns, and after Add(id, x) Get(id) returns x and invokes no factory.
C28_LaterRegistrationWins ==
  /\ C28_AddReplaces
  /\ (last.op = "addFactory" /\ ~crashed) =>
       LET f == facs["base"][last.id]
           g == GetNow(last.id)
       IN /\ g.invoked
          /\ g.made = FactoryCall(f, 1)
          /\ f.kind = "ok" => (g.err = NoErr /\ g.obj = FactoryCall(f, 1).obj)

(***************************************************************************)
(* SpecOwner: two registries; converters of two types are registered under *)
(* an id and under its versioned form, as instances and by factories, the  *)
(* registries are merged, and base is asked for the function of the pair.  *)
(***************************************************************************)
OwnerRegs == 2

OwnerIds == {IdConverter, IdConverterV2}
OwnerTypes == {"TimeStringConverter", "FormatConverter"}

NextOwner ==
  \/ /\ nregs < OwnerRegs
     /\ ~gotten
     /\ \E r \in RegNames, id \in OwnerIds, typ \in OwnerTypes : Add(r, id, typ, FALSE)
  \/ /\ nregs < OwnerRegs
     /\ ~gotten
     /\ \E r \in RegNames, id \in OwnerIds, typ \in OwnerTypes :
           AddFactory(r, id, typ, "ok", FALSE)
  \/ /\ ~gotten
     /\ Merge
  \/ \E id \in OwnerIds \cup {NoOwner} : GetFuncStep("base", id, TimeToString)

SpecOwner == Init /\ [][NextOwner]_vars

\* an object or a factory is registered in base under the id
Registered(id) == deps["base"][id] # Absent \/ facs["base"][id] # Absent

\* the last operation was a GetFunc that returned a callable
ReturnedCallable ==
  /\ ~crashed
  /\ last.err = NoErr
  /\ last.fn # Absent
  /\ HasMethod(last.fn.obj.typ, last.fn.method)

\* C27: after any sequence of Add, AddFactory and Merge, the entry GetFunc
\* selects names an owner under which an object is registered and a method
\* that object has, so that GetFunc returns a callable, neither NotFound nor
\* a panic; and GetFunc asked for a registered owner, versioned or not, of a
\* type with a function of the pair returns a callable.
C27_SelectedEntryCallable ==
  last.op = "getFunc" =>
    /\ last.sel # 0 =>
         /\ Registered(LastList[last.sel].ObjectID)
         /\ ReturnedCallable
    /\ (last.id # NoOwner /\ Registered(last.id)) => ReturnedCallable

\* the part of C27 that holds: when the owner some entry names is registered
\* under that same id, as an instance only, GetFunc returns a method of the
\* object now registered, or panics when that object is of another type
\* than the one the entry was made from
C27_UnversionedInstances ==
  (/\ last.op = "getFunc"
   /\ last.sel # 0
   /\ deps["base"][LastList[last.sel].ObjectID] # Absent) =>
     \/ ReturnedCallable
     \/ /\ crashed
        /\ ~HasMethod(deps["base"][LastList[last.sel].ObjectID].typ,
                      LastList[last.sel].Func)

(***************************************************************************)
(* SpecUnit: a mapping unit registered by its factory, as the generated    *)
(* bootstrap does, with a helper and a mapper function registered before   *)
(* or after the unit is first got; the unit's mapping function is run.     *)
(***************************************************************************)
UnitRegs == 3
MaxUnitRuns == 2

\* the pairs of types of the fields the unit's mapping functions map, by the
\* id their mapper function is registered under: two fields of one pair
UnitFieldPairs == <<IdFunc, IdFunc>>

\* MappingContext.AddMapperFuncField over the first n fields: a field is
\* added unless one of the same pair is there
RECURSIVE MapperFuncFields(_)
MapperFuncFields(n) ==
  IF n = 0 THEN <<>>
  ELSE LET fs == MapperFuncFields(n - 1)
       IN IF \E k \in 1..Len(fs) : fs[k] = UnitFieldPairs[n] THEN fs
          ELSE Append(fs, UnitFieldPairs[n])

\* the helper the unit would use if it asked the registry when it runs
LookedUpHelper ==
  IF Get(deps["base"], facs["base"], calls, IdHelper).err = NoErr THEN "ok" ELSE "none"

\* m.helper, the field the mapping function tests and calls
BoundHelper == mapper.helper

\* what New<Mapper>(mapperGetter) looks up, and the fields it binds: the
\* helper when Get finds it, each mapper function field when GetMapperFunc
\* finds its function
NewMapper(D, F, C) ==
  LET fs == MapperFuncFields(Len(UnitFieldPairs))
      found(id) == Get(D, F, C, id).err = NoErr
  IN [helper |-> IF found(IdHelper) THEN "ok" ELSE "none",
      funcs |-> {fs[k] : k \in {j \in 1..Len(fs) : found(fs[j])}},
      lookups |-> << Event("lookup", IF found(IdHelper) THEN 1 ELSE 0, IdHelper) >> \o
                  [k \in 1..Len(fs) |->
                     Event("lookup", IF found(fs[k]) THEN 1 ELSE 0, fs[k])]]

\* base.Get("TodoMapper"): the factory, when Get invokes it, runs the
\* constructor, which does its lookups in the registry it was given
GetUnit ==
  LET g == Get(deps["base"], facs["base"], calls, IdMapper)
      m == NewMapper(deps["base"], facs["base"], calls)
  IN /\ ~crashed
     /\ \A f \in FactoryIds : g.calls[f] <= MaxCalls
     /\ deps' = [deps EXCEPT !["base"] = g.deps]
     /\ calls' = g.calls
     /\ memo' = Memoize("base", IdMapper, g)
     /\ gotten' = TRUE
     /\ last' = [NoLast EXCEPT !.op = "get", !.id = IdMapper, !.obj = g.obj,
                               !.err = g.err, !.invoked = g.invoked]
     /\ IF g.invoked
        THEN /\ mapper' = [helper |-> m.helper, funcs |-> m.funcs, failOn |-> {}]
             /\ events' = events \o m.lookups
        ELSE UNCHANGED <<mapper, events>>
     /\ UNCHANGED <<facs, findex, nregs, nmerges, pre, crashed>>
     /\ UNCHANGED <<sourceObj, destObj, rpc, rerr, first, given>>
     /\ UNCHANGED <<thrVars, genVars, castVars, fileVars>>

\* the runs of the mapping function so far
UnitRuns == {k \in 1..Len(events) : events[k].e = "run"}

\* a mapping function of the unit runs: it calls the mapper function fields
\* that are bound, then the helper if one is bound
RunUnit ==
  /\ ~crashed
  /\ deps["base"][IdMapper] # Absent
  /\ Cardinality(UnitRuns) < MaxUnitRuns
  /\ events' = Append(events,
                 Event("run", 0,
                       (IF IdFunc \in mapper.funcs THEN <<IdFunc>> ELSE <<>>) \o
                       (IF BoundHelper # "none" THEN <<IdHelper>> ELSE <<>>)))
  /\ UNCHANGED <<mapper, sourceObj, destObj, rpc, rerr, first, given>>
  /\ UNCHANGED <<regVars, thrVars, genVars, castVars, fileVars>>

NextUnit ==
  \/ /\ nregs < UnitRegs
     /\ AddFactory("base", IdMapper, "TodoMapper", "ok", FALSE)
  \/ /\ nregs < UnitRegs
     /\ \E id \in {IdHelper, IdFunc} : Add("base", id, DeclaredType(id), FALSE)
  \/ GetUnit
  \/ RunUnit

SpecUnit == Init /\ [][NextUnit]_vars

\* the lookups of id the constructor has made
LookupsOf(id) == {k \in 1..Len(events) : events[k].e = "lookup" /\ events[k].called = id}

\* C26: the helper and the mapper function of each pair of types are looked
\* up exactly once, when the unit is constructed by the first Get, one lookup
\* per pair however many fields have it; every run of a mapping function
\* comes after the lookups, makes none, and calls exactly what the lookups
\* found, whatever has been registered since.
C26_BoundOnceAtConstruction ==
  \A id \in {IdHelper, IdFunc} :
    /\ Cardinality(LookupsOf(id)) = IF deps["base"][IdMapper] # Absent THEN 1 ELSE 0
    /\ \A k \in UnitRuns :
         \E j \in LookupsOf(id) :
            /\ j < k
            /\ (events[j].k = 1) <=>
                 (\E i \in 1..Len(events[k].called) : events[k].called[i] = id)

\* the unit was constructed when neither helper nor mapper function was
\* registered, both were registered afterwards, and a mapping function run
\* after that has called neither
C26_Witness ==
  /\ deps["base"][IdHelper] # Absent
  /\ deps["base"][IdFunc] # Absent
  /\ \E k \in UnitRuns : events[k].called = <<>>

(***************************************************************************)
(* Factories whose bodies look objects up in the registry that runs them.  *)
(* mappers.Get hands the registry itself to the factory (logger.go 215),   *)
(* so a lookup inside a factory body is a call of Get inside a call of     *)
(* Get; the product of a factory is stored only after the factory has      *)
(* returned (logger.go 222).  GetFuncByTypeName reaches the same Get for   *)
(* the owner of the entry it selects (logger.go 291-295).  The generated   *)
(* constructor of a mapper looks up one type pair per mapper function      *)
(* field (config.go 1482-1491), and the factory of a type pair gets the    *)
(* mapper that serves it (config.go 1547-1552).                            *)
(***************************************************************************)
CycleRegs == 2
\* the calls of Get one inside the other that the goroutine's stack holds
MaxStack == 4

CycleIds == {IdMapper, IdFunc, IdConverter}

\* the body of a factory: the ids it looks up, in order; a strict body
\* returns the error of a lookup (the factory of a type pair), any other
\* goes on without the object (the constructor's `if err == nil`)
Body(needs, strict) == [needs |-> needs, strict |-> strict]

CycleBodies ==
  {Body(<<>>, FALSE), Body(<<IdMapper>>, TRUE)} \cup {Body(<<i>>, FALSE) : i \in CycleIds}

\* a call of Get(id) that has just begun
GetCall(id) == [id |-> id, pc |-> "load", todo |-> <<>>, err |-> NoErr]

\* the stack once the innermost Get has returned err to the body that called it
Unwound(err) ==
  LET rest == Tail(stack) IN
  IF rest = <<>> THEN rest
  ELSE IF err # NoErr /\ facs["base"][Head(rest).id].kind.strict
       THEN <<[Head(rest) EXCEPT !.todo = <<>>, !.err = err]>> \o Tail(rest)
       ELSE rest

\* what the caller of the outermost Get receives
Received(obj, err) ==
  IF Tail(stack) = <<>>
  THEN [NoLast EXCEPT !.op = "get", !.id = Head(stack).id, !.obj = obj, !.err = err]
  ELSE last

\* Get(id), called from outside every factory: the first Get of the process
CycleGet(id) ==
  /\ ~crashed
  /\ ~gotten
  /\ stack = <<>>
  /\ stack' = <<GetCall(id)>>
  /\ gotten' = TRUE
  /\ last' = [NoLast EXCEPT !.op = "call", !.id = id]
  /\ UNCHANGED <<deps, facs, findex, calls, nregs, nmerges, memo, pre, crashed>>
  /\ UNCHANGED <<lock, tpc, targ, tloc, tret, genVars, restVars>>

\* d.dependencies.Load(id) and, on a miss, d.factories.Load(id) and the call
\* of the factory
CycleLoad ==
  /\ ~crashed
  /\ stack # <<>>
  /\ Head(stack).pc = "load"
  /\ LET id == Head(stack).id
         v == deps["base"][id]
         f == facs["base"][id]
         notFound == MError(TRUE, ErrText("object not found"))
     IN IF v # Absent /\ v # NilObj
        THEN /\ stack' = Unwound(NoErr)
             /\ last' = Received(v, NoErr)
             /\ UNCHANGED calls
        ELSE IF f = Absent
        THEN /\ stack' = Unwound(notFound)
             /\ last' = Received(NilObj, notFound)
             /\ UNCHANGED calls
        ELSE /\ calls' = [calls EXCEPT ![f.fid] = @ + 1]
             /\ stack' = <<[Head(stack) EXCEPT !.pc = "body", !.todo = f.kind.needs]>>
                           \o Tail(stack)
             /\ UNCHANGED last
  /\ UNCHANGED <<deps, facs, findex, nregs, nmerges, memo, pre, gotten, crashed>>
  /\ UNCHANGED <<lock, tpc, targ, tloc, tret, genVars, restVars>>

\* the factory's body: its next lookup, a call of Get that the stack may
\* have no room for; or its return, and d.dependencies.Store(id, obj) when it
\* returned no error
CycleBody ==
  /\ ~crashed
  /\ stack # <<>>
  /\ Head(stack).pc = "body"
  /\ LET top == Head(stack)
         f == facs["base"][top.id]
         obj == Object(f.typ, <<"factory", f.fid, calls[f.fid]>>)
         failed == Errorf(MError(FALSE, top.err))
     IN IF top.todo # <<>>
        THEN /\ IF Len(stack) >= MaxStack
                THEN crashed' = TRUE /\ UNCHANGED stack
                ELSE /\ stack' = <<GetCall(Head(top.todo)), [top EXCEPT !.todo = Tail(@)]>>
                                   \o Tail(stack)
                     /\ UNCHANGED crashed
             /\ UNCHANGED <<deps, last>>
        ELSE IF top.err # NoErr
        THEN /\ stack' = Unwound(failed)
             /\ last' = Received(NilObj, failed)
             /\ UNCHANGED <<deps, crashed>>
        ELSE /\ deps' = [deps EXCEPT !["base"][top.id] = obj]
             /\ stack' = Unwound(NoErr)
             /\ last' = Received(obj, NoErr)
             /\ UNCHANGED crashed
  /\ UNCHANGED <<facs, findex, calls, nregs, nmerges, memo, pre, gotten>>
  /\ UNCHANGED <<lock, tpc, targ, tloc, tret, genVars, restVars>>

NextCycle ==
  \/ /\ nregs < CycleRegs
     /\ ~gotten
     /\ \E id \in CycleIds, body \in CycleBodies :
           AddFactory("base", id, DeclaredType(id), body, FALSE)
  \/ /\ nregs < CycleRegs
     /\ ~gotten
     /\ \E id \in CycleIds : Add("base", id, DeclaredType(id), FALSE)
  \/ \E id \in CycleIds : CycleGet(id)
  \/ CycleLoad
  \/ CycleBody

SpecCycle == Init /\ [][NextCycle]_vars

\* a goroutine inside Get goes on running
SpecCycleFair == SpecCycle /\ WF_vars(CycleLoad \/ CycleBody)

\* the ids whose factory is running
Constructing == {stack[i].id : i \in {j \in 1..Len(stack) : stack[j].pc = "body"}}

\* C29: every Get returns a value or an error after finitely many factory
\* invocations, whatever the factories look up, a factory that looks up an
\* object which its own product serves included
C29_GetReturns == (stack # <<>>) ~> (stack = <<>> /\ last.op = "get")

\* the same as a property of states: no factory is called while it is running
C29_NoFactoryInsideItself ==
  \A i \in 1..Len(stack) :
    (stack[i].pc = "load" /\ i < Len(stack)) =>
      \/ stack[i].id \notin {stack[j].id : j \in (i + 1)..Len(stack)}
      \/ deps["base"][stack[i].id] # Absent

\* a Get that does not return has run out of stack
ReturnsOrOverflows == (stack # <<>>) ~> (crashed \/ (stack = <<>> /\ last.op = "get"))

\* the stack runs out only under a factory called while it is running
OverflowIsACycle ==
  crashed => \E i, j \in 1..Len(stack) : i < j /\ stack[i].id = stack[j].id

\* a Get that returns hands out an error, or the object stored under the id
AcyclicReturns ==
  (last.op = "get" /\ stack = <<>>) =>
     \/ last.err # NoErr /\ last.obj = NilObj
     \/ last.err = NoErr /\ deps["base"][last.id] = last.obj

====
